---- MODULE Spec2Model ----
(***************************************************************************)
(* The time-partition (TP) scheduling class of the EVL core,               *)
(* kernel/evl/sched/tp.c, for one CPU run queue: the per-CPU schedule      *)
(* table and its reference count, the frame timer and the window advance,  *)
(* the per-partition run queues, the threads attached to the policy and    *)
(* the control calls (install, uninstall, start, stop, get).               *)
(*                                                                         *)
(* Time is the monotonic clock in abstract units; every time value stays   *)
(* far below the range of a 64-bit ktime_t, so ktime_add/ktime_sub are the *)
(* integer operations.  Everything tp.c does with rq->lock held is one     *)
(* step; a control call that goes on after dropping the lock (the copy and *)
(* put of evl_tp_get, the put of the old table) takes a second step.       *)
(***************************************************************************)
EXTENDS Integers, Sequences, FiniteSets, TLC

(***************************************************************************)
(* Bounds of the model.                                                    *)
(***************************************************************************)
MaxWin == 2
\* most windows in an install request

MaxDur == 2
\* longest window duration in a request

MaxOff == 3
\* largest window offset in a request

MaxTime == 4
\* the clock stops advancing there

MaxRun == 2
\* where the clock stops when the run queues are explored

MaxSkew == 1
\* most time between the two clock reads of a start

MaxTables == 2
MaxNest == 2
\* blocks the heap can hold

NSEC_PER_SEC == 2
\* clock units per second of a timespec (scaled down)

(***************************************************************************)
(* Program constants.                                                      *)
(***************************************************************************)
NR_PART == 2
\* CONFIG_EVL_SCHED_TP_NR_PART

EINVAL == 22

EBUSY == 16

ENOMEM == 12

NoSched == 0
\* a NULL struct evl_tp_schedule pointer

NullPart == -2
\* a NULL struct evl_tp_rq pointer

IdlePart == -1
\* &tp->idle, the queue of the pseudo partition #-1

Callers == {"c1", "c2", "c3"}

Tables == 1..MaxTables

Parts == 0..(NR_PART - 1)

Queues == Parts \cup {IdlePart}

Threads == {"t1", "t2"}

NoThread == "root"
\* the root (in-band placeholder) thread of the run queue: what runs when no class picks

EVL_TP_MIN_PRIO == 1

EVL_TP_MAX_PRIO == 2

VARIABLES
    now,        \* evl_mono_clock
    tp,         \* struct evl_sched_tp of the run queue: gps, tps, wnext, tf_start, tf_timer, threads
    runnable,   \* tp->partitions[n].runnable and tp->idle.runnable (index IdlePart)
    heap,       \* the struct evl_tp_schedule blocks of the system heap
    thread,     \* per thread: base_class, tps, cprio, bprio, state bits
    curr,       \* rq->curr
    resched,    \* the run queue is marked as needing a reschedule
    call,       \* per caller: the control call in progress past its locked section
    last,       \* the step just taken, when a control call returned, the timer fired or tp_pick ran
    hist,       \* history of the frame: the window made active last, the start date
    tick,       \* where tp_tick_handler stands: "idle", or "spinning" on rq->lock
    entry       \* the CPU as the interrupt entry code sees it: the stage that runs,
                \* the in-band stall bit, the register frames of the entries taken

vars == <<now, tp, runnable, heap, thread, curr, resched, call, last, hist, tick, entry>>

(***************************************************************************)
(* Timespec conversions of the control interface.                          *)
(***************************************************************************)
u_timespec_to_ktime(ts) == ts.tv_sec * NSEC_PER_SEC + ts.tv_nsec

ktime_to_u_timespec(kt) ==
    [tv_sec |-> kt \div NSEC_PER_SEC, tv_nsec |-> kt % NSEC_PER_SEC]

(***************************************************************************)
(* The heap of schedule tables.                                            *)
(***************************************************************************)
FreeBlock == [pwins |-> <<>>, pwin_nr |-> 0, tf_duration |-> 0, refcount |-> 0, live |-> FALSE]

FreeIds(h) == {id \in Tables : ~h[id].live}

\* evl_alloc: the lowest free block, or NULL when the heap is exhausted
evl_alloc(h) ==
    IF FreeIds(h) = {} THEN NoSched
    ELSE CHOOSE id \in FreeIds(h) : \A o \in FreeIds(h) : id <= o

evl_free(h, id) == IF id = NoSched THEN h ELSE [h EXCEPT ![id] = FreeBlock]

\* a get that takes no reference
get_ref_none(h, id) == h

\* atomic_inc(&gps->refcount)
get_ref(h, id) == [h EXCEPT ![id].refcount = @ + 1]

\* a put that frees the table whatever its count
put_tp_schedule_free(h, id) == evl_free(h, id)

\* put_tp_schedule: atomic_dec_and_test, then evl_free
put_tp_schedule(h, id) ==
    IF h[id].refcount - 1 = 0 THEN evl_free(h, id)
    ELSE [h EXCEPT ![id].refcount = @ - 1]

(***************************************************************************)
(* The window advance.                                                     *)
(***************************************************************************)
LoopFuel == MaxTime + 2

\* the loop with the tick date left one frame behind the frame start
\* a loop that jumps to the next frame and keeps the window index it had
RECURSIVE resync_loop_keep(_, _, _, _, _, _)
resync_loop_keep(tf_start, wnext, t, tf_duration, clk, n) ==
    IF clk <= t \/ n >= LoopFuel
    THEN [tf_start |-> tf_start, wnext |-> wnext, t |-> t, loops |-> n]
    ELSE resync_loop_keep(tf_start + tf_duration, wnext, tf_start + tf_duration,
                          tf_duration, clk, n + 1)

\* a loop that moves the frame start to the clock when the tick date is past
RECURSIVE resync_loop_clock(_, _, _, _, _, _)
resync_loop_clock(tf_start, wnext, t, tf_duration, clk, n) ==
    IF clk <= t \/ n >= LoopFuel
    THEN [tf_start |-> tf_start, wnext |-> wnext, t |-> t, loops |-> n]
    ELSE resync_loop_clock(clk, 0, clk, tf_duration, clk, n + 1)

RECURSIVE resync_loop_behind(_, _, _, _, _, _)
resync_loop_behind(tf_start, wnext, t, tf_duration, clk, n) ==
    IF clk <= t \/ n >= LoopFuel
    THEN [tf_start |-> tf_start, wnext |-> wnext, t |-> t, loops |-> n]
    ELSE resync_loop_behind(tf_start + tf_duration, 0, tf_start,
                            tf_duration, clk, n + 1)

\* the for (;;) loop of tp_schedule_next: t is the tick date, n counts the
\* iterations; every read of the clock in the loop returns clk
RECURSIVE resync_loop(_, _, _, _, _, _)
resync_loop(tf_start, wnext, t, tf_duration, clk, n) ==
    IF clk <= t \/ n >= LoopFuel
    THEN [tf_start |-> tf_start, wnext |-> wnext, t |-> t, loops |-> n]
    ELSE resync_loop(tf_start + tf_duration, 0, tf_start + tf_duration,
                     tf_duration, clk, n + 1)

\* an advance that arms the timer without looking at the clock
tp_schedule_next_noloop(t, h, clk) ==
    LET gps == h[t.gps]
        p_next == gps.pwins[t.wnext + 1].w_part
        tps == IF p_next < 0 THEN IdlePart ELSE p_next
        wnext == (t.wnext + 1) % gps.pwin_nr
        date == t.tf_start + gps.pwins[wnext + 1].w_offset
    IN  [tp |-> [t EXCEPT !.tps = tps, !.wnext = wnext,
                          !.tf_timer = [running |-> TRUE, date |-> date]],
         loops |-> 0]

\* the advance stepping the window index by two
tp_schedule_next_skip(t, h, clk) ==
    LET gps == h[t.gps]
        p_next == gps.pwins[t.wnext + 1].w_part
        tps == IF p_next < 0 THEN IdlePart ELSE p_next
        wnext == (t.wnext + 2) % gps.pwin_nr
        date == t.tf_start + gps.pwins[wnext + 1].w_offset
        r == resync_loop(t.tf_start, wnext, date, gps.tf_duration, clk, 0)
    IN  [tp |-> [t EXCEPT !.tps = tps, !.wnext = r.wnext, !.tf_start = r.tf_start,
                          !.tf_timer = [running |-> TRUE, date |-> r.t]],
         loops |-> r.loops]

\* tp_schedule_next: the struct evl_sched_tp it leaves, and how many times
\* the loop body ran
tp_schedule_next(t, h, clk) ==
    LET gps == h[t.gps]
        p_next == gps.pwins[t.wnext + 1].w_part
        tps == IF p_next < 0 THEN IdlePart ELSE p_next
        wnext == (t.wnext + 1) % gps.pwin_nr
        date == t.tf_start + gps.pwins[wnext + 1].w_offset
        r == resync_loop(t.tf_start, wnext, date, gps.tf_duration, clk, 0)
    IN  [tp |-> [t EXCEPT !.tps = tps, !.wnext = r.wnext, !.tf_start = r.tf_start,
                          !.tf_timer = [running |-> TRUE, date |-> r.t]],
         loops |-> r.loops]

\* tp_tick_handler with rq->lock held: the overrun test on rq->curr (cs is
\* its state), the frame start moved on before the last window, the advance
tp_tick_handler(t, h, clk, cs) ==
    LET gps == h[t.gps]
        overrun_frame ==
            IF cs.woso /\ ~cs.blocked
            THEN (IF t.wnext - 1 < 0 THEN gps.pwin_nr - 1 ELSE t.wnext - 1)
            ELSE -1
        t1 == IF t.wnext + 1 = gps.pwin_nr
              THEN [t EXCEPT !.tf_start = @ + gps.tf_duration]
              ELSE t
        r == tp_schedule_next(t1, h, clk)
    IN  [tp |-> r.tp, loops |-> r.loops, overrun_frame |-> overrun_frame]

\* a switch that releases the refused table before it releases rq->lock
switch_events_locked(alloc, ret) ==
    (IF alloc THEN <<"alloc">> ELSE <<>>) \o
    (IF ret # 0 THEN <<"lock", "free", "unlock">>
     ELSE <<"lock", "stop", "swap", "unlock">>)

\* what tp_control does to rq->lock, to the heap and to the per-CPU state on
\* its way through install_schedule and switch_schedule, in order: evl_alloc
\* if windows were given, then set_tp_schedule (raw_spin_lock, the test of
\* tp->threads, stop_tp_schedule and the swap, raw_spin_unlock), then
\* evl_free(gps) at fail: if the switch was refused
switch_events(alloc, ret) ==
    (IF alloc THEN <<"alloc">> ELSE <<>>) \o
    (IF ret # 0 THEN <<"lock", "unlock", "free">>
     ELSE <<"lock", "stop", "swap", "unlock">>)

\* install_schedule when it does not reach switch_schedule: evl_alloc fails,
\* or a window is refused and the new table is freed at fail:
install_events(ret) ==
    IF ret = -ENOMEM THEN <<"alloc">> ELSE <<"alloc", "free">>

\* evl_tp_start and evl_tp_stop: the lock around start_tp_schedule and
\* stop_tp_schedule
start_events == <<"lock", "start", "unlock">>
stop_events == <<"lock", "stop", "unlock">>

\* evl_tp_get: the lock around get_tp_schedule, which takes a reference on
\* the table if there is one
get_events(gps) ==
    IF gps = NoSched THEN <<"lock", "unlock">> ELSE <<"lock", "ref", "unlock">>

\* put_tp_schedule: the block is freed if the count drops to zero
put_events(h, id) ==
    IF h[id].refcount - 1 = 0 THEN <<"put", "free">> ELSE <<"put">>

\* a handler that notifies before it releases rq->lock
tick_events_locked(overrun_frame) ==
    <<"lock", "advance">> \o
    (IF overrun_frame >= 0 THEN <<"notify">> ELSE <<>>) \o <<"unlock">>

\* what tp_tick_handler does to rq->lock and to the thread, in order:
\* raw_spin_lock, tp_schedule_next, raw_spin_unlock, evl_notify_thread
tick_events(overrun_frame) ==
    <<"lock", "advance", "unlock">> \o
    (IF overrun_frame >= 0 THEN <<"notify">> ELSE <<>>)

\* a start that resets the frame before it looks for the table
start_tp_schedule_early(t, h, clk0, clk) ==
    IF t.gps = NoSched
    THEN [tp |-> [t EXCEPT !.wnext = 0, !.tf_start = clk0], loops |-> 0, started |-> FALSE]
    ELSE LET r == tp_schedule_next([t EXCEPT !.wnext = 0, !.tf_start = clk0], h, clk)
         IN  [tp |-> r.tp, loops |-> r.loops, started |-> TRUE]

\* a start that leaves a running schedule alone
start_tp_schedule_once(t, h, clk0, clk) ==
    IF t.gps = NoSched \/ t.tf_timer.running
    THEN [tp |-> t, loops |-> 0, started |-> FALSE]
    ELSE LET r == tp_schedule_next([t EXCEPT !.wnext = 0, !.tf_start = clk0], h, clk)
         IN  [tp |-> r.tp, loops |-> r.loops, started |-> TRUE]

\* start_tp_schedule: clk0 is the clock read for tf_start, clk the one read
\* by tp_schedule_next
start_tp_schedule(t, h, clk0, clk) ==
    IF t.gps = NoSched THEN [tp |-> t, loops |-> 0, started |-> FALSE]
    ELSE LET r == tp_schedule_next([t EXCEPT !.wnext = 0, !.tf_start = clk0], h, clk)
         IN  [tp |-> r.tp, loops |-> r.loops, started |-> TRUE]

\* a stop that also rewinds the frame to its first window
stop_tp_schedule_rewind(t) ==
    IF t.gps # NoSched THEN [t EXCEPT !.tf_timer.running = FALSE, !.wnext = 0] ELSE t

\* stop_tp_schedule: evl_stop_timer leaves the timer not running
stop_tp_schedule(t) ==
    IF t.gps # NoSched THEN [t EXCEPT !.tf_timer.running = FALSE] ELSE t

(***************************************************************************)
(* The run queues: a queue is the sequence of its threads, highest         *)
(* priority first, and first queued first among equal priorities.          *)
(***************************************************************************)
InsertAt(q, k, th) == SubSeq(q, 1, k) \o <<th>> \o SubSeq(q, k + 1, Len(q))

\* evl_add_schedq_tail: behind the threads of the same priority
evl_add_schedq_tail(q, th, thr) ==
    InsertAt(q, Cardinality({i \in 1..Len(q) : thr[q[i]].cprio >= thr[th].cprio}), th)

\* evl_add_schedq: ahead of the threads of the same priority
evl_add_schedq(q, th, thr) ==
    InsertAt(q, Cardinality({i \in 1..Len(q) : thr[q[i]].cprio > thr[th].cprio}), th)

evl_del_schedq(q, th) == SelectSeq(q, LAMBDA x : x # th)

\* evl_get_schedq: the head of the queue, or NULL
evl_get_schedq(q) == IF q = <<>> THEN NoThread ELSE Head(q)

\* a pick that takes the head of the first partition that has a thread
\* a pick that polls the queue of partition 0 whatever the window
tp_pick_first(t, rq) ==
    IF ~t.tf_timer.running THEN NoThread
    ELSE evl_get_schedq(rq[0])

tp_pick_any(t, rq) ==
    IF ~t.tf_timer.running THEN NoThread
    ELSE IF \A q \in Queues : rq[q] = <<>> THEN NoThread
    ELSE evl_get_schedq(rq[CHOOSE q \in Queues : rq[q] # <<>> /\ \A o \in Queues : rq[o] # <<>> => q <= o])

\* a pick that does not test the frame timer
tp_pick_nocheck(t, rq) ==
    IF t.tps = NullPart THEN NoThread
    ELSE evl_get_schedq(rq[t.tps])

\* tp_pick: the thread it returns
tp_pick(t, rq) ==
    IF ~t.tf_timer.running THEN NoThread
    ELSE evl_get_schedq(rq[t.tps])

\* tp_chkparam: 0 or -EINVAL
\* a check that does not look for the table
tp_chkparam_notable(t, ptid, prio) ==
    IF prio < EVL_TP_MIN_PRIO \/ prio > EVL_TP_MAX_PRIO
       \/ ptid < 0 \/ ptid >= NR_PART
    THEN -EINVAL
    ELSE 0

\* a check that lets the idle partition pass
tp_chkparam_idle(t, ptid, prio) ==
    IF t.gps = NoSched \/ prio < EVL_TP_MIN_PRIO \/ prio > EVL_TP_MAX_PRIO
       \/ ptid < IdlePart \/ ptid >= NR_PART
    THEN -EINVAL
    ELSE 0

\* tp_chkparam
tp_chkparam(t, ptid, prio) ==
    IF t.gps = NoSched \/ prio < EVL_TP_MIN_PRIO \/ prio > EVL_TP_MAX_PRIO
       \/ ptid < 0 \/ ptid >= NR_PART
    THEN -EINVAL
    ELSE 0

\* tp_setparam, with evl_set_effective_thread_priority on a thread that is not boosted
tp_setparam(ts, ptid, prio) ==
    [ts EXCEPT !.tps = ptid, !.bprio = prio, !.cprio = prio]

\* no parameters: the null pointer tp_trackprio may be given
NoParam == [ptid |-> NullPart, prio |-> 0]

\* a priority tracking that follows the partition of the parameters
tp_trackprio_cross(ts, p) ==
    IF p # NoParam THEN [ts EXCEPT !.cprio = p.prio, !.tps = p.ptid]
    ELSE [ts EXCEPT !.cprio = ts.bprio]

\* tp_trackprio: the priority of the parameters, or the base priority
tp_trackprio(ts, p) ==
    IF p # NoParam THEN [ts EXCEPT !.cprio = p.prio]
    ELSE [ts EXCEPT !.cprio = ts.bprio]

\* the EVL_WARN_ON of tp_trackprio: the parameters name another partition
tp_trackprio_warns(ts, p) ==
    p # NoParam /\ ts.base_class = "tp" /\ ts.tps # p.ptid

\* a ceiling that takes the priority as it is given
tp_ceilprio_noclamp(ts, prio) == [ts EXCEPT !.cprio = prio]

\* tp_ceilprio
tp_ceilprio(ts, prio) ==
    [ts EXCEPT !.cprio = IF prio > EVL_TP_MAX_PRIO THEN EVL_TP_MAX_PRIO ELSE prio]

\* a migration that hands over the base priority
tp_migrate_base(ts) == [class |-> "fifo", prio |-> ts.bprio]

\* tp_migrate: the class and the parameters handed to
\* evl_set_thread_schedparam_locked
tp_migrate(ts) == [class |-> "fifo", prio |-> ts.cprio]

(***************************************************************************)
(* tp_control: the pieces that compute.                                    *)
(***************************************************************************)
\* the loop letting an empty window pass
RECURSIVE install_loop_empty(_, _, _, _)
install_loop_empty(windows, n, pwins, next_offset) ==
    IF n > Len(windows)
    THEN [ok |-> TRUE, pwins |-> pwins, next_offset |-> next_offset]
    ELSE LET p == windows[n]
             offset == u_timespec_to_ktime(p.offset)
             duration == u_timespec_to_ktime(p.duration)
             fail == [ok |-> FALSE, pwins |-> pwins, next_offset |-> next_offset]
         IN  IF offset # next_offset THEN fail
             ELSE IF duration < 0 THEN fail
             ELSE IF p.ptid < -1 \/ p.ptid >= NR_PART THEN fail
             ELSE install_loop_empty(windows, n + 1,
                                     Append(pwins, [w_offset |-> next_offset, w_part |-> p.ptid]),
                                     next_offset + duration)

\* the loop of install_schedule over pt->windows[n..], filling gps->pwins
RECURSIVE install_loop(_, _, _, _)
install_loop(windows, n, pwins, next_offset) ==
    IF n > Len(windows)
    THEN [ok |-> TRUE, pwins |-> pwins, next_offset |-> next_offset]
    ELSE LET p == windows[n]
             offset == u_timespec_to_ktime(p.offset)
             duration == u_timespec_to_ktime(p.duration)
             fail == [ok |-> FALSE, pwins |-> pwins, next_offset |-> next_offset]
         IN  IF offset # next_offset THEN fail
             ELSE IF duration <= 0 THEN fail
             ELSE IF p.ptid < -1 \/ p.ptid >= NR_PART THEN fail
             ELSE install_loop(windows, n + 1,
                               Append(pwins, [w_offset |-> next_offset, w_part |-> p.ptid]),
                               next_offset + duration)

\* the table with the frame ending where its last window starts
install_schedule_short(windows) ==
    LET r == install_loop(windows, 1, <<>>, 0)
    IN  [ok |-> r.ok,
         gps |-> [pwins |-> r.pwins, pwin_nr |-> Len(r.pwins),
                  tf_duration |-> IF r.pwins = <<>> THEN 0 ELSE r.pwins[Len(r.pwins)].w_offset,
                  refcount |-> 1, live |-> TRUE]]

\* install_schedule: the table built from a request, when every window passes
install_schedule(windows) ==
    LET r == install_loop(windows, 1, <<>>, 0)
    IN  [ok |-> r.ok,
         gps |-> [pwins |-> r.pwins, pwin_nr |-> Len(r.pwins),
                  tf_duration |-> r.next_offset, refcount |-> 1, live |-> TRUE]]

\* a switch that does not look at the attached threads
set_tp_schedule_nobusy(t, h, gps) ==
    IF gps # NoSched /\ (h[gps].pwin_nr <= 0 \/ h[gps].pwins[1].w_offset # 0)
    THEN [tp |-> t, ret |-> 0, ogps |-> t.gps]
    ELSE [tp |-> [stop_tp_schedule(t) EXCEPT !.gps = gps], ret |-> 0, ogps |-> t.gps]

\* a switch that stops the frame timer before it looks at the attached threads
set_tp_schedule_stopfirst(t, h, gps) ==
    IF gps # NoSched /\ (h[gps].pwin_nr <= 0 \/ h[gps].pwins[1].w_offset # 0)
    THEN [tp |-> t, ret |-> 0, ogps |-> t.gps]
    ELSE IF t.threads # {}
    THEN [tp |-> stop_tp_schedule(t), ret |-> -EBUSY, ogps |-> NoSched]
    ELSE [tp |-> [stop_tp_schedule(t) EXCEPT !.gps = gps], ret |-> 0, ogps |-> t.gps]

\* a switch that leaves the frame timer running under the new table
set_tp_schedule_nostop(t, h, gps) ==
    IF gps # NoSched /\ (h[gps].pwin_nr <= 0 \/ h[gps].pwins[1].w_offset # 0)
    THEN [tp |-> t, ret |-> 0, ogps |-> t.gps]
    ELSE IF t.threads # {}
    THEN [tp |-> t, ret |-> -EBUSY, ogps |-> NoSched]
    ELSE IF gps = NoSched
    THEN [tp |-> [stop_tp_schedule(t) EXCEPT !.gps = gps], ret |-> 0, ogps |-> t.gps]
    ELSE [tp |-> [t EXCEPT !.gps = gps], ret |-> 0, ogps |-> t.gps]

\* set_tp_schedule(rq, gps): the struct evl_sched_tp it leaves and what it
\* returns (ret 0 with the old table in ogps, or ret -EBUSY)
set_tp_schedule(t, h, gps) ==
    IF gps # NoSched /\ (h[gps].pwin_nr <= 0 \/ h[gps].pwins[1].w_offset # 0)
    THEN [tp |-> t, ret |-> 0, ogps |-> t.gps]
    ELSE IF t.threads # {}
    THEN [tp |-> t, ret |-> -EBUSY, ogps |-> NoSched]
    ELSE [tp |-> [stop_tp_schedule(t) EXCEPT !.gps = gps], ret |-> 0, ogps |-> t.gps]

\* the result buffer of evl_tp_get: per entry the fields, and which were written
NoTs == [tv_sec |-> 0, tv_nsec |-> 0]

NoEntry == [offset |-> NoTs, duration |-> NoTs, ptid |-> 0, set |-> {}]

BufIdx == 0..(MaxWin + 1)

\* the copy loop of evl_tp_get; n, p, pp, w, pw count from 0 as in the code
RECURSIVE get_loop(_, _, _, _, _, _, _, _)
get_loop(buf, gps, nr_windows, n, p, pp, w, pw) ==
    IF n >= nr_windows THEN [buf |-> buf, pp |-> pp, pw |-> pw]
    ELSE LET b1 == [buf EXCEPT ![p].offset = ktime_to_u_timespec(gps.pwins[w + 1].w_offset),
                               ![p].set = @ \cup {"offset"}]
             b2 == [b1 EXCEPT ![pp].duration = ktime_to_u_timespec(
                                   gps.pwins[w + 1].w_offset - gps.pwins[pw + 1].w_offset),
                              ![pp].set = @ \cup {"duration"}]
             b3 == [b2 EXCEPT ![p].ptid = gps.pwins[w + 1].w_part,
                              ![p].set = @ \cup {"ptid"}]
         IN  get_loop(b3, gps, nr_windows, n + 1, p + 1, p, w + 1, w)

\* the copy without the duration of the last window
get_copy_nolast(gps, req_windows) ==
    LET nr_windows == IF req_windows < gps.pwin_nr THEN req_windows ELSE gps.pwin_nr
        r == get_loop([i \in BufIdx |-> NoEntry], gps, nr_windows, 0, 0, 0, 0, 0)
    IN  [nr_windows |-> gps.pwin_nr, windows |-> r.buf, len |-> nr_windows]

\* evl_tp_get past the NULL test: what it writes to infp->tp and returns
\* (len stands for evl_tp_infolen(len))
get_copy(gps, req_windows) ==
    LET nr_windows == IF req_windows < gps.pwin_nr THEN req_windows ELSE gps.pwin_nr
        r == get_loop([i \in BufIdx |-> NoEntry], gps, nr_windows, 0, 0, 0, 0, 0)
        buf == [r.buf EXCEPT ![r.pp].duration = ktime_to_u_timespec(
                                  gps.tf_duration - gps.pwins[r.pw + 1].w_offset),
                             ![r.pp].set = @ \cup {"duration"}]
    IN  [nr_windows |-> gps.pwin_nr, windows |-> buf, len |-> nr_windows]

(***************************************************************************)
(* The state after tp_init, and the steps.                                 *)
(***************************************************************************)
\* last tells what the step just taken was: op is the operation, ret what it
\* returned, locked whether the step ran set_tp_schedule, done whether the
\* call returned with this step
NoCall == [op |-> "none", ret |-> 0, locked |-> FALSE, done |-> FALSE]

Return(op, ret) == [op |-> op, ret |-> ret, locked |-> FALSE, done |-> TRUE]

\* the history of a CPU whose frame timer was not started since the table
\* built from the windows req was installed, or since it was stopped
NoFrame(req) == [wact |-> -1, loops |-> 0, S |-> 0, ontime |-> FALSE, req |-> req]

Idle == [pc |-> "idle", gps |-> NoSched, nr_windows |-> 0, infp |-> FALSE, op |-> "none"]

Init ==
    /\ now = 0
    /\ tp = [gps |-> NoSched, tps |-> NullPart, wnext |-> 0, tf_start |-> 0,
             tf_timer |-> [running |-> FALSE, date |-> 0], threads |-> {}]
    /\ runnable = [q \in Queues |-> <<>>]
    /\ heap = [id \in Tables |-> FreeBlock]
    /\ thread = [th \in Threads |->
                    [base_class |-> "none", tps |-> NullPart, cprio |-> 0, bprio |-> 0,
                     woso |-> FALSE, st |-> "blocked"]]
    /\ curr = NoThread
    /\ resched = FALSE
    /\ call = [c \in Callers |-> Idle]
    /\ last = NoCall
    /\ hist = NoFrame(<<>>)
    /\ tick = "idle"
    /\ entry = [oob |-> FALSE, stalled |-> FALSE, pending |-> FALSE, frames |-> <<>>]

\* the clock advances, up to max
ClockTick(max) ==
    /\ now < max
    /\ now' = now + 1
    /\ last' = NoCall
    /\ UNCHANGED <<tp, runnable, heap, thread, curr, resched, call, hist, tick, entry>>

\* the frame timer fires: tp_tick_handler, then the overrun notification
Fire ==
    /\ tp.tf_timer.running
    /\ now >= tp.tf_timer.date
    /\ LET cs == IF curr = NoThread THEN [woso |-> FALSE, blocked |-> FALSE]
                 ELSE [woso |-> thread[curr].woso, blocked |-> thread[curr].st = "blocked"]
           r == tp_tick_handler(tp, heap, now, cs)
       IN  /\ tp' = r.tp
           /\ hist' = [hist EXCEPT !.wact = tp.wnext, !.loops = r.loops,
                                   !.ontime = hist.ontime /\ now = tp.tf_timer.date]
           /\ last' = Return("tick", 0) @@
                      [overrun_frame |-> r.overrun_frame,
                       notified |-> IF r.overrun_frame >= 0 THEN curr ELSE NoThread,
                       events |-> tick_events(r.overrun_frame)]
    /\ resched' = TRUE
    /\ UNCHANGED <<now, runnable, heap, thread, curr, call, tick, entry>>

\* the frame timer elapses on the CPU of the run queue: tp_tick_handler is
\* entered, reads rq->curr and reaches raw_spin_lock(&rq->lock), which a
\* control call issued from another CPU may hold
Dispatch ==
    /\ tick = "idle"
    /\ tp.tf_timer.running
    /\ now >= tp.tf_timer.date
    /\ tick' = "spinning"
    /\ last' = NoCall
    /\ UNCHANGED <<now, tp, runnable, heap, thread, curr, resched, call, hist, entry>>

\* tp_tick_handler gets rq->lock and runs to its end: nothing is tested
\* again under the lock, neither the timer nor the table (whose absence is
\* left out: the handler would read through a null tp->gps)
TickLocked ==
    /\ tick = "spinning"
    /\ tp.gps # NoSched
    /\ tp.wnext < heap[tp.gps].pwin_nr
    /\ LET cs == IF curr = NoThread THEN [woso |-> FALSE, blocked |-> FALSE]
                 ELSE [woso |-> thread[curr].woso, blocked |-> thread[curr].st = "blocked"]
           r == tp_tick_handler(tp, heap, now, cs)
       IN  /\ tp' = r.tp
           /\ hist' = [hist EXCEPT !.wact = tp.wnext, !.loops = r.loops,
                                   !.ontime = hist.ontime /\ now = tp.tf_timer.date]
           /\ last' = Return("tick", 0) @@
                      [overrun_frame |-> r.overrun_frame,
                       notified |-> IF r.overrun_frame >= 0 THEN curr ELSE NoThread,
                       events |-> tick_events(r.overrun_frame)]
    /\ tick' = "idle"
    /\ resched' = TRUE
    /\ UNCHANGED <<now, runnable, heap, thread, curr, call, entry>>

\* the table with its window array read past its end up to index wnext: what
\* lies there is the window w
ReadPast(gps, wnext, w) ==
    [gps EXCEPT !.pwins = [i \in 1..(wnext + 1) |->
                              IF i <= gps.pwin_nr THEN gps.pwins[i] ELSE w]]

\* tp_tick_handler gets rq->lock and finds no table, or a table shorter than
\* tp->wnext: it reads through a null tp->gps and faults with the lock held,
\* or reads pwins[tp->wnext] past the end of the array, where any partition
\* number may lie (part) or the read faults
TickWild(part, faults) ==
    /\ tick = "spinning"
    /\ IF tp.gps = NoSched THEN TRUE ELSE tp.wnext >= heap[tp.gps].pwin_nr
    /\ IF tp.gps = NoSched \/ faults
       THEN /\ tick' = "fault"
            /\ last' = Return("tick_fault", 0)
            /\ UNCHANGED <<tp, hist, resched>>
       ELSE LET cs == IF curr = NoThread THEN [woso |-> FALSE, blocked |-> FALSE]
                      ELSE [woso |-> thread[curr].woso, blocked |-> thread[curr].st = "blocked"]
                h == [heap EXCEPT ![tp.gps] =
                         ReadPast(@, tp.wnext, [w_offset |-> 0, w_part |-> part])]
                r == tp_tick_handler(tp, h, now, cs)
            IN  /\ tp' = r.tp
                /\ hist' = [hist EXCEPT !.wact = tp.wnext, !.loops = r.loops,
                                        !.ontime = FALSE]
                /\ last' = Return("tick", 0) @@
                           [overrun_frame |-> r.overrun_frame,
                            notified |-> IF r.overrun_frame >= 0 THEN curr ELSE NoThread,
                            events |-> tick_events(r.overrun_frame)]
                /\ tick' = "idle"
                /\ resched' = TRUE
    /\ UNCHANGED <<now, runnable, heap, thread, curr, call, entry>>

\* tp_control, evl_tp_start: the second clock read comes skew later
CtlStart(c, skew) ==
    /\ call[c].pc = "idle"
    /\ now + skew <= MaxTime
    /\ LET r == start_tp_schedule(tp, heap, now, now + skew)
       IN  /\ tp' = r.tp
           /\ resched' = (resched \/ r.started)
           /\ hist' = IF r.started
                      THEN [hist EXCEPT !.wact = 0, !.loops = r.loops, !.S = now,
                                        !.ontime = (skew = 0)]
                      ELSE hist
           /\ last' = Return("start", 0) @@
                      [started |-> r.started, restart |-> tp.tf_timer.running,
                       events |-> start_events]
    /\ now' = now + skew
    /\ UNCHANGED <<runnable, heap, thread, curr, call, tick, entry>>

\* tp_control, evl_tp_stop
CtlStop(c) ==
    /\ call[c].pc = "idle"
    /\ tp' = stop_tp_schedule(tp)
    /\ hist' = NoFrame(hist.req)
    /\ last' = Return("stop", 0) @@ [events |-> stop_events]
    /\ UNCHANGED <<now, runnable, heap, thread, curr, resched, call, tick, entry>>

\* tp_control on a bad CPU or with an unknown operation
CtlInvalid(c) ==
    /\ call[c].pc = "idle"
    /\ last' = Return("invalid", -EINVAL)
    /\ UNCHANGED <<now, tp, runnable, heap, thread, curr, resched, call, hist, tick, entry>>

\* switch_schedule: set_tp_schedule on block gps of heap h (NoSched to
\* uninstall); windows is the request the block was built from
Switch(c, op, h, gps, windows) ==
    LET r == set_tp_schedule(tp, h, gps)
        ret == [op |-> op, ret |-> r.ret, locked |-> TRUE, done |-> TRUE, req |-> windows,
                events |-> switch_events(gps # NoSched, r.ret)]
    IN  /\ tp' = r.tp
        /\ IF r.ret # 0
           THEN /\ heap' = evl_free(h, gps)
                /\ last' = ret
                /\ UNCHANGED <<call, hist>>
           ELSE /\ heap' = h
                /\ hist' = NoFrame(windows)
                /\ IF r.ogps # NoSched
                   THEN /\ call' = [call EXCEPT ![c] = [Idle EXCEPT !.pc = "put", !.gps = r.ogps, !.op = op]]
                        /\ last' = [ret EXCEPT !.done = FALSE]
                   ELSE /\ last' = ret
                        /\ UNCHANGED call
        /\ UNCHANGED <<now, runnable, thread, curr, resched, tick, entry>>

\* an install that refuses a request without windows
CtlInstallStrict(c, req, alloc_ok) ==
    /\ call[c].pc = "idle"
    /\ IF req.nr_windows <= 0
       THEN /\ last' = [Return("install", -EINVAL) EXCEPT !.locked = TRUE] @@
                       [req |-> req.windows, events |-> <<>>]
            /\ UNCHANGED <<now, tp, runnable, heap, thread, curr, resched, call, hist, tick, entry>>
       ELSE LET gps == IF alloc_ok THEN evl_alloc(heap) ELSE NoSched
                r == install_schedule(req.windows)
            IN  IF gps = NoSched
                THEN /\ last' = Return("install", -ENOMEM) @@
                                [req |-> req.windows, events |-> install_events(-ENOMEM)]
                     /\ UNCHANGED <<now, tp, runnable, heap, thread, curr, resched, call, hist, tick, entry>>
                ELSE IF ~r.ok
                THEN /\ last' = Return("install", -EINVAL) @@
                                [req |-> req.windows, events |-> install_events(-EINVAL)]
                     /\ UNCHANGED <<now, tp, runnable, heap, thread, curr, resched, call, hist, tick, entry>>
                ELSE Switch(c, "install", [heap EXCEPT ![gps] = r.gps], gps, req.windows)

\* tp_control, evl_tp_install: alloc_ok tells whether evl_alloc finds memory
CtlInstall(c, req, alloc_ok) ==
    /\ call[c].pc = "idle"
    /\ IF req.nr_windows <= 0
       THEN Switch(c, "install", heap, NoSched, <<>>)
       ELSE LET gps == IF alloc_ok THEN evl_alloc(heap) ELSE NoSched
                r == install_schedule(req.windows)
            IN  IF gps = NoSched
                THEN /\ last' = Return("install", -ENOMEM) @@
                                [req |-> req.windows, events |-> install_events(-ENOMEM)]
                     /\ UNCHANGED <<now, tp, runnable, heap, thread, curr, resched, call, hist, tick, entry>>
                ELSE IF ~r.ok
                THEN /\ last' = Return("install", -EINVAL) @@
                                [req |-> req.windows, events |-> install_events(-EINVAL)]
                     /\ UNCHANGED <<now, tp, runnable, heap, thread, curr, resched, call, hist, tick, entry>>
                ELSE Switch(c, "install", [heap EXCEPT ![gps] = r.gps], gps, req.windows)

\* tp_control, evl_tp_uninstall
CtlUninstall(c) ==
    /\ call[c].pc = "idle"
    /\ Switch(c, "uninstall", heap, NoSched, <<>>)

\* tp_control past set_tp_schedule: the old table is put, the call returns
CtlPut(c) ==
    /\ call[c].pc = "put"
    /\ heap' = put_tp_schedule(heap, call[c].gps)
    /\ call' = [call EXCEPT ![c] = Idle]
    /\ last' = Return(call[c].op, 0) @@ [events |-> put_events(heap, call[c].gps)]
    /\ UNCHANGED <<now, tp, runnable, thread, curr, resched, hist, tick, entry>>

\* tp_control, evl_tp_get: get_tp_schedule with the lock held
CtlGet(c, nr_windows, infp) ==
    /\ call[c].pc = "idle"
    /\ IF tp.gps = NoSched
       THEN /\ last' = Return("get", 0) @@ [events |-> get_events(tp.gps)]
            /\ UNCHANGED <<heap, call>>
       ELSE /\ heap' = get_ref(heap, tp.gps)
            /\ call' = [call EXCEPT ![c] = [pc |-> "get", gps |-> tp.gps,
                                            nr_windows |-> nr_windows, infp |-> infp, op |-> "get"]]
            /\ last' = [NoCall EXCEPT !.op = "get"] @@ [events |-> get_events(tp.gps)]
    /\ UNCHANGED <<now, tp, runnable, thread, curr, resched, hist, tick, entry>>

\* a get that returns -EINVAL for a missing buffer and keeps its reference
CtlGetCopyLeak(c) ==
    /\ call[c].pc = "get"
    /\ heap' = IF call[c].infp THEN put_tp_schedule(heap, call[c].gps) ELSE heap
    /\ call' = [call EXCEPT ![c] = Idle]
    /\ IF ~call[c].infp
       THEN last' = Return("get", -EINVAL) @@ [gps |-> call[c].gps, events |-> <<>>]
       ELSE LET r == get_copy(heap[call[c].gps], call[c].nr_windows)
            IN  last' = Return("get", r.len) @@
                        [info |-> r, gps |-> call[c].gps, max |-> call[c].nr_windows,
                         events |-> <<"copy">> \o put_events(heap, call[c].gps)]
    /\ UNCHANGED <<now, tp, runnable, thread, curr, resched, hist, tick, entry>>

\* tp_control, evl_tp_get past the lock: the copy to infp and the put
CtlGetCopy(c) ==
    /\ call[c].pc = "get"
    /\ heap' = put_tp_schedule(heap, call[c].gps)
    /\ call' = [call EXCEPT ![c] = Idle]
    /\ IF ~call[c].infp
       THEN last' = Return("get", -EINVAL) @@
                    [gps |-> call[c].gps, events |-> put_events(heap, call[c].gps)]
       ELSE LET r == get_copy(heap[call[c].gps], call[c].nr_windows)
            IN  last' = Return("get", r.len) @@
                        [info |-> r, gps |-> call[c].gps, max |-> call[c].nr_windows,
                         events |-> <<"copy">> \o put_events(heap, call[c].gps)]
    /\ UNCHANGED <<now, tp, runnable, thread, curr, resched, hist, tick, entry>>

(***************************************************************************)
(* The scheduling class callbacks, as the core scheduler calls them with   *)
(* rq->lock held.  A thread is blocked (some EVL_THREAD_BLOCK_BITS set),   *)
(* ready (EVL_T_READY, linked to its run queue) or running.                *)
(***************************************************************************)
\* a thread of another class is moved to the TP class:
\* tp_chkparam, tp_declare, tp_setparam
Attach(th, ptid, prio) ==
    /\ thread[th].base_class # "tp"
    /\ thread[th].st = "blocked"
    /\ tp_chkparam(tp, ptid, prio) = 0
    /\ tp' = [tp EXCEPT !.threads = @ \cup {th}]
    /\ thread' = [thread EXCEPT ![th] = [tp_setparam(@, ptid, prio) EXCEPT !.base_class = "tp"]]
    /\ last' = NoCall
    /\ UNCHANGED <<now, runnable, heap, curr, resched, call, hist, tick, entry>>

\* the core has the class check the parameters given for a thread: tp_chkparam
ChkParam(th, ptid, prio) ==
    /\ last' = Return("chkparam", tp_chkparam(tp, ptid, prio)) @@
               [thread |-> th, ptid |-> ptid, prio |-> prio]
    /\ UNCHANGED <<now, tp, runnable, heap, thread, curr, resched, call, hist, tick, entry>>

\* tp_forget
Forget(th) ==
    /\ thread[th].base_class = "tp"
    /\ thread[th].st = "blocked"
    /\ tp' = [tp EXCEPT !.threads = @ \ {th}]
    /\ thread' = [thread EXCEPT ![th].tps = NullPart, ![th].base_class = "none"]
    /\ last' = NoCall
    /\ UNCHANGED <<now, runnable, heap, curr, resched, call, hist, tick, entry>>

\* an enqueue that links the thread to the idle queue
EnqueueIdle(th) ==
    /\ thread[th].base_class = "tp"
    /\ thread[th].st = "blocked"
    /\ runnable' = [runnable EXCEPT ![IdlePart] = evl_add_schedq_tail(@, th, thread)]
    /\ thread' = [thread EXCEPT ![th].st = "ready"]
    /\ last' = NoCall
    /\ UNCHANGED <<now, tp, heap, curr, resched, call, hist, tick, entry>>

\* tp_enqueue: a blocked thread resumes
Enqueue(th) ==
    /\ thread[th].base_class = "tp"
    /\ thread[th].st = "blocked"
    /\ runnable' = [runnable EXCEPT ![thread[th].tps] = evl_add_schedq_tail(@, th, thread)]
    /\ thread' = [thread EXCEPT ![th].st = "ready"]
    /\ last' = NoCall
    /\ UNCHANGED <<now, tp, heap, curr, resched, call, hist, tick, entry>>

\* tp_dequeue: a ready thread is blocked
Dequeue(th) ==
    /\ thread[th].base_class = "tp"
    /\ thread[th].st = "ready"
    /\ runnable' = [runnable EXCEPT ![thread[th].tps] = evl_del_schedq(@, th)]
    /\ thread' = [thread EXCEPT ![th].st = "blocked"]
    /\ last' = NoCall
    /\ UNCHANGED <<now, tp, heap, curr, resched, call, hist, tick, entry>>

\* tp_requeue: the running thread is put back ahead of its priority group
Requeue(th) ==
    /\ thread[th].base_class = "tp"
    /\ thread[th].st = "running"
    /\ runnable' = [runnable EXCEPT ![thread[th].tps] = evl_add_schedq(@, th, thread)]
    /\ thread' = [thread EXCEPT ![th].st = "ready"]
    /\ last' = NoCall
    /\ UNCHANGED <<now, tp, heap, curr, resched, call, hist, tick, entry>>

\* the running thread blocks
Sleep(th) ==
    /\ thread[th].st = "running"
    /\ thread' = [thread EXCEPT ![th].st = "blocked"]
    /\ last' = NoCall
    /\ UNCHANGED <<now, tp, runnable, heap, curr, resched, call, hist, tick, entry>>

\* the core reschedules once the resched bit is set: a TP thread that was
\* running goes back to its queue (tp_requeue), then tp_pick is asked for
\* the next thread
Schedule ==
    /\ resched
    /\ LET back == IF curr = NoThread THEN FALSE
                   ELSE thread[curr].base_class = "tp" /\ thread[curr].st = "running"
           rq1 == IF back
                  THEN [runnable EXCEPT ![thread[curr].tps] = evl_add_schedq(@, curr, thread)]
                  ELSE runnable
           thr1 == IF back THEN [thread EXCEPT ![curr].st = "ready"] ELSE thread
           th == tp_pick(tp, rq1)
       IN  /\ last' = Return("pick", 0) @@ [thread |-> th]
           /\ curr' = th
           /\ runnable' = IF th = NoThread THEN rq1
                          ELSE [rq1 EXCEPT ![thr1[th].tps] = evl_del_schedq(@, th)]
           /\ thread' = IF th = NoThread THEN thr1 ELSE [thr1 EXCEPT ![th].st = "running"]
    /\ resched' = FALSE
    /\ UNCHANGED <<now, tp, heap, call, hist, tick, entry>>

\* the clock moves on, no further than the date of the frame timer, and
\* not before a pending rescheduling is done: every firing is handled on time
ClockOnTime ==
    /\ ~resched
    /\ tp.tf_timer.running => now < tp.tf_timer.date
    /\ ClockTick(MaxTime)

\* the thread sets or clears its EVL_T_WOSO mode bit
SetMode(th) ==
    /\ thread' = [thread EXCEPT ![th].woso = ~@]
    /\ last' = NoCall
    /\ UNCHANGED <<now, tp, runnable, heap, curr, resched, call, hist, tick, entry>>

\* a thread of a class that outweighs TP preempts what runs and becomes
\* rq->curr: a TP thread that was running goes back to its queue (tp_requeue)
RunOther(th) ==
    /\ thread[th].base_class # "tp"
    /\ thread[th].st = "blocked"
    /\ curr # th
    /\ curr' = th
    /\ IF curr # NoThread /\ thread[curr].base_class = "tp" /\ thread[curr].st = "running"
       THEN /\ runnable' = [runnable EXCEPT
                                ![thread[curr].tps] = evl_add_schedq(@, curr, thread)]
            /\ thread' = [thread EXCEPT ![curr].st = "ready", ![th].st = "running"]
       ELSE /\ runnable' = runnable
            /\ thread' = [thread EXCEPT ![th].st = "running"]
    /\ last' = NoCall
    /\ UNCHANGED <<now, tp, heap, resched, call, hist, tick, entry>>

\* the queue of partition `to` once th, linked to the queue of partition
\* `from` if it is ready, has been unlinked and put back: tp_dequeue before
\* the priority changes and tp_requeue after, thr being the threads after
Relinked(th, from, to, thr) ==
    IF thread[th].st # "ready" THEN runnable
    ELSE LET r1 == [runnable EXCEPT ![from] = evl_del_schedq(@, th)]
         IN  [r1 EXCEPT ![to] = evl_add_schedq(@, th, thr)]

\* the core tracks the priority of a TP thread: tp_trackprio with the
\* parameters p of the boosting thread, or with none to drop the boost
TrackPrio(th, p) ==
    /\ thread[th].base_class = "tp"
    /\ thread[th].st # "running"
    /\ thread' = [thread EXCEPT ![th] = tp_trackprio(@, p)]
    /\ runnable' = Relinked(th, thread[th].tps, thread'[th].tps, thread')
    /\ last' = Return("trackprio", 0) @@
               [thread |-> th, p |-> p, warned |-> tp_trackprio_warns(thread[th], p)]
    /\ UNCHANGED <<now, tp, heap, curr, resched, call, hist, tick, entry>>

\* the core applies a priority ceiling to a TP thread: tp_ceilprio
CeilPrio(th, prio) ==
    /\ thread[th].base_class = "tp"
    /\ thread[th].st # "running"
    /\ thread' = [thread EXCEPT ![th] = tp_ceilprio(@, prio)]
    /\ runnable' = Relinked(th, thread[th].tps, thread'[th].tps, thread')
    /\ last' = Return("ceilprio", 0) @@ [thread |-> th, prio |-> prio]
    /\ UNCHANGED <<now, tp, heap, curr, resched, call, hist, tick, entry>>

\* the core moves a TP thread to another CPU: it unlinks the thread if ready,
\* then tp_migrate has evl_set_thread_schedparam_locked change its class,
\* which leaves the TP class through tp_forget and takes the priority given
Migrate(th) ==
    /\ thread[th].base_class = "tp"
    /\ thread[th].st # "running"
    /\ LET param == tp_migrate(thread[th])
       IN  /\ thread' = [thread EXCEPT ![th] =
                            [@ EXCEPT !.base_class = param.class, !.tps = NullPart,
                                      !.bprio = param.prio, !.cprio = param.prio]]
           /\ last' = Return("migrate", 0) @@
                      [thread |-> th, prio |-> param.prio, bprio |-> thread[th].bprio]
    /\ tp' = [tp EXCEPT !.threads = @ \ {th}]
    /\ runnable' = [runnable EXCEPT ![thread[th].tps] = evl_del_schedq(@, th)]
    /\ UNCHANGED <<now, heap, curr, resched, call, hist, tick, entry>>

\* the core scheduler asks the class for the next thread: tp_pick, whose
\* evl_get_schedq unlinks the thread it returns
Pick ==
    /\ (IF curr = NoThread THEN TRUE ELSE thread[curr].st # "running")
    /\ LET th == tp_pick(tp, runnable)
       IN  /\ last' = Return("pick", 0) @@ [thread |-> th]
           /\ curr' = th
           /\ IF th = NoThread
              THEN UNCHANGED <<runnable, thread>>
              ELSE /\ runnable' = [runnable EXCEPT ![thread[th].tps] = evl_del_schedq(@, th)]
                   /\ thread' = [thread EXCEPT ![th].st = "running"]
    /\ resched' = FALSE
    /\ UNCHANGED <<now, tp, heap, call, hist, tick, entry>>

(***************************************************************************)
(* Interrupt and trap entry: kernel/entry/common.c and, for arm64,         *)
(* arch/arm64/kernel/entry-common.c, with CONFIG_IRQ_PIPELINE. e is the    *)
(* CPU: oob says which stage runs, stalled is the in-band stall bit,       *)
(* pending says that the in-band interrupt log is not empty. RCU, lockdep  *)
(* and tracing calls are left out.                                         *)
(***************************************************************************)
stall_inband_nocheck(e) == [e EXCEPT !.stalled = TRUE]

unstall_inband_nocheck(e) == [e EXCEPT !.stalled = FALSE]

\* synchronize_pipeline_on_irq on the in-band stage: synchronize_pipeline
\* plays the interrupts logged for the stage unless it is stalled
synchronize_pipeline_on_irq(e) ==
    IF ~e.oob /\ ~e.stalled THEN [e EXCEPT !.pending = FALSE] ELSE e

irqentry_enter_from_user_mode(e) == stall_inband_nocheck(e)

\* an entry that tests the stall bit from kernel mode and leaves it
irqentry_enter_peek(e, user) ==
    IF e.oob THEN [e |-> e, stage_info |-> "oob"]
    ELSE IF user
    THEN [e |-> irqentry_enter_from_user_mode(e), stage_info |-> "inband_unstalled"]
    ELSE [e |-> e,
          stage_info |-> IF ~e.stalled THEN "inband_unstalled" ELSE "inband_stalled"]

\* irqentry_enter: the CPU it leaves and the stage_info it returns
irqentry_enter(e, user) ==
    IF e.oob THEN [e |-> e, stage_info |-> "oob"]
    ELSE IF user
    THEN [e |-> irqentry_enter_from_user_mode(e), stage_info |-> "inband_unstalled"]
    ELSE [e |-> stall_inband_nocheck(e),
          stage_info |-> IF ~e.stalled THEN "inband_unstalled" ELSE "inband_stalled"]

\* a syncstage that synchronizes the pipeline before it unstalls the stage
irqentry_syncstage_stalled(e, stage_info) ==
    IF stage_info \in {"inband_unstalled", "oob"}
    THEN [e |-> stall_inband_nocheck(
                    unstall_inband_nocheck(synchronize_pipeline_on_irq(e))),
          synchronized |-> TRUE]
    ELSE [e |-> e, synchronized |-> FALSE]

\* irqentry_syncstage
irqentry_syncstage(e, stage_info) ==
    IF stage_info \in {"inband_unstalled", "oob"}
    THEN [e |-> stall_inband_nocheck(
                    synchronize_pipeline_on_irq(unstall_inband_nocheck(e))),
          synchronized |-> TRUE]
    ELSE [e |-> e, synchronized |-> FALSE]

\* irqentry_exit_to_user_mode: the return to user mode leaves the in-band
\* stage unstalled
irqentry_exit_to_user_mode(e) == unstall_inband_nocheck(e)

\* an exit that does not unstall after it has synchronized
irqentry_exit_nounstall(e, user, stage_info) ==
    IF e.oob THEN e
    ELSE IF user THEN irqentry_exit_to_user_mode(e)
    ELSE irqentry_syncstage(e, stage_info).e

\* irqentry_exit
irqentry_exit(e, user, stage_info) ==
    IF e.oob THEN e
    ELSE IF user THEN irqentry_exit_to_user_mode(e)
    ELSE LET s == irqentry_syncstage(e, stage_info)
         IN  IF s.synchronized THEN unstall_inband_nocheck(s.e) ELSE s.e

\* arm64 enter_from_kernel_mode: the CPU it leaves and what it stores in the
\* register frame; irqs_enabled is interrupts_enabled(regs)
enter_from_kernel_mode(e, irqs_enabled) ==
    IF e.oob THEN [e |-> e, oob_on_entry |-> TRUE, stalled_on_entry |-> FALSE]
    ELSE [e |-> IF irqs_enabled
                THEN unstall_inband_nocheck(stall_inband_nocheck(e))
                ELSE stall_inband_nocheck(e),
          oob_on_entry |-> FALSE, stalled_on_entry |-> e.stalled]

\* arm64 exit_to_kernel_mode
exit_to_kernel_mode(e, oob_on_entry, stalled_on_entry) ==
    IF e.oob THEN e
    ELSE IF ~oob_on_entry
    THEN (IF stalled_on_entry THEN stall_inband_nocheck(e) ELSE unstall_inband_nocheck(e))
    ELSE e

tpvars == <<now, tp, runnable, heap, thread, curr, resched, call, hist, tick>>

\* an interrupt or a trap is taken through irqentry_enter, from user mode or
\* from kernel mode; the frame keeps what irqentry_exit will be given, and
\* the stage and the stall bit found
IrqEntryEnter(user) ==
    /\ Len(entry.frames) < MaxNest
    /\ user => (entry.frames = <<>> /\ (entry.oob \/ ~entry.stalled))
    /\ LET r == irqentry_enter(entry, user)
           fr == [kind |-> "generic", user |-> user, stage_info |-> r.stage_info,
                  oob_on_entry |-> FALSE, stalled_on_entry |-> FALSE,
                  was_oob |-> entry.oob, was_stalled |-> entry.stalled]
       IN  /\ entry' = [r.e EXCEPT !.frames = <<fr>> \o @]
           /\ last' = Return("irqentry_enter", 0) @@ [frame |-> fr]
    /\ UNCHANGED tpvars

\* the handler returns through irqentry_exit, in-band interrupts disabled
\* if it runs in-band (lockdep_assert_irqs_disabled)
IrqEntryExit ==
    /\ entry.frames # <<>>
    /\ Head(entry.frames).kind = "generic"
    /\ entry.oob \/ entry.stalled
    /\ LET fr == Head(entry.frames)
       IN  /\ entry' = [irqentry_exit(entry, fr.user, fr.stage_info)
                           EXCEPT !.frames = Tail(@)]
           /\ last' = Return("irqentry_exit", 0) @@
                      [frame |-> fr, oob |-> entry.oob, pending |-> entry.pending]
    /\ UNCHANGED tpvars

\* arm64: a trap or an interrupt is taken from kernel mode
KernelEnter(irqs_enabled) ==
    /\ Len(entry.frames) < MaxNest
    /\ LET r == enter_from_kernel_mode(entry, irqs_enabled)
           fr == [kind |-> "arm64", user |-> FALSE, stage_info |-> "none",
                  oob_on_entry |-> r.oob_on_entry, stalled_on_entry |-> r.stalled_on_entry,
                  was_oob |-> entry.oob, was_stalled |-> entry.stalled]
       IN  /\ entry' = [r.e EXCEPT !.frames = <<fr>> \o @]
           /\ last' = Return("enter_from_kernel_mode", 0) @@ [frame |-> fr]
    /\ UNCHANGED tpvars

\* arm64: the return to kernel mode
KernelExit ==
    /\ entry.frames # <<>>
    /\ Head(entry.frames).kind = "arm64"
    /\ LET fr == Head(entry.frames)
       IN  /\ entry' = [exit_to_kernel_mode(entry, fr.oob_on_entry, fr.stalled_on_entry)
                           EXCEPT !.frames = Tail(@)]
           /\ last' = Return("exit_to_kernel_mode", 0) @@ [frame |-> fr]
    /\ UNCHANGED tpvars

\* in-band code disables or enables the in-band interrupts; enabling them
\* plays the interrupts logged meanwhile
InbandIrqs ==
    /\ ~entry.oob
    /\ entry' = [entry EXCEPT !.stalled = ~@,
                              !.pending = IF entry.stalled THEN FALSE ELSE @]
    /\ last' = NoCall
    /\ UNCHANGED tpvars

\* the code that runs migrates to the other stage
StageSwitch ==
    /\ entry' = [entry EXCEPT !.oob = ~@]
    /\ last' = NoCall
    /\ UNCHANGED tpvars

\* an interrupt for the in-band stage arrives while the stage is stalled or
\* the out-of-band stage runs: it is logged
LogIrq ==
    /\ entry.oob \/ entry.stalled
    /\ ~entry.pending
    /\ entry' = [entry EXCEPT !.pending = TRUE]
    /\ last' = NoCall
    /\ UNCHANGED tpvars

(***************************************************************************)
(* The inputs.                                                             *)
(***************************************************************************)
Ts(kt) == ktime_to_u_timespec(kt)

Request(windows) == [nr_windows |-> Len(windows), windows |-> windows]

\* the window lists of well-formed requests: contiguous windows of 1..MaxDur
RECURSIVE GoodWindows(_, _)
GoodWindows(n, off) ==
    IF n = 0 THEN {<<>>}
    ELSE UNION {{<<[offset |-> Ts(off), duration |-> Ts(d), ptid |-> p]>> \o rest :
                     rest \in GoodWindows(n - 1, off + d)} :
                d \in 1..MaxDur, p \in -1..(NR_PART - 1)}

GoodRequests == {Request(w) : w \in UNION {GoodWindows(n, 0) : n \in 1..MaxWin}}

\* any window: offsets 0..MaxOff, durations -1..MaxDur, partitions -2..NR_PART
AnyWindow ==
    {[offset |-> Ts(o), duration |-> Ts(d), ptid |-> p] :
        o \in 0..MaxOff, d \in -1..MaxDur, p \in -2..NR_PART}

\* requests shaped like the three-window scenario: P0, idle, P1, idle, ...
ScenarioPtid(i) == IF i % 2 = 0 THEN -1 ELSE (i \div 2) % NR_PART

FrameRequests ==
    {r \in GoodRequests : \A i \in 1..r.nr_windows : r.windows[i].ptid = ScenarioPtid(i)}

\* the requests of that shape, with one window replaced by any window
PerturbedRequests ==
    UNION {{Request([r.windows EXCEPT ![i] = w]) : i \in 1..r.nr_windows, w \in AnyWindow} :
           r \in FrameRequests}

\* requests of MaxWin windows of one clock unit each, the first one of partition 0
RunRequests ==
    {r \in GoodRequests :
        /\ r.nr_windows = MaxWin
        /\ r.windows[1].ptid = 0
        /\ \A i \in 1..r.nr_windows : u_timespec_to_ktime(r.windows[i].duration) = 1}

\* the requests among them that give the whole frame to one partition
PartRequests ==
    {r \in RunRequests : \A i \in 1..r.nr_windows : r.windows[i].ptid = r.windows[1].ptid}

\* the requests without windows: a count of zero, a negative count
EmptyRequests == {Request(<<>>), [nr_windows |-> -1, windows |-> <<>>]}

\* some requests that must be refused: a hole, an empty window, a partition out of range
BadRequests ==
    {Request(<<[offset |-> Ts(0), duration |-> Ts(1), ptid |-> 0],
               [offset |-> Ts(o), duration |-> Ts(d), ptid |-> p]>>) :
        o \in {1, 0}, d \in {1, 0}, p \in {1, NR_PART}} \ GoodRequests

(***************************************************************************)
(* The specifications.                                                     *)
(***************************************************************************)
\* the run queues: threads of both partitions against the schedule
\* installed on the CPU as tp_init left it
Next ==
    \/ ClockTick(MaxRun)
    \/ Fire
    \/ CtlStart("c1", 0)
    \/ CtlStop("c1")
    \/ /\ tp.gps = NoSched
       /\ \E req \in RunRequests : CtlInstall("c1", req, TRUE)
    \/ \E th \in Threads :
          \/ \E ptid \in Parts, prio \in EVL_TP_MIN_PRIO..EVL_TP_MAX_PRIO : Attach(th, ptid, prio)
          \/ Forget(th)
          \/ Enqueue(th)
          \/ Dequeue(th)
          \/ Requeue(th)
          \/ Sleep(th)
    \/ Pick

Spec == Init /\ [][Next]_vars

\* the frame: installs, starts and stops against the clock, no thread
NextFrame ==
    \/ ClockTick(MaxTime)
    \/ Fire
    \/ \E skew \in 0..MaxSkew : CtlStart("c1", skew)
    \/ CtlStop("c1")
    \/ \E req \in FrameRequests : CtlInstall("c1", req, TRUE)
    \/ CtlUninstall("c1")
    \/ CtlPut("c1")

SpecFrame == Init /\ [][NextFrame]_vars

\* the control calls and their errors, with one thread to attach
NextCtl ==
    \/ ClockTick(MaxRun)
    \/ Fire
    \/ CtlStart("c1", 0)
    \/ CtlStop("c1")
    \/ CtlInvalid("c1")
    \/ \E req \in RunRequests \cup BadRequests \cup EmptyRequests, ok \in BOOLEAN :
          CtlInstall("c1", req, ok)
    \/ CtlUninstall("c1")
    \/ CtlPut("c1")
    \/ \E infp \in BOOLEAN : CtlGet("c1", MaxWin, infp)
    \/ CtlGetCopy("c1")
    \/ Attach("t1", 0, EVL_TP_MIN_PRIO)
    \/ Forget("t1")
    \/ Enqueue("t1")
    \/ Dequeue("t1")

SpecCtl == Init /\ [][NextCtl]_vars

\* the table and its references: gets, installs and uninstalls of all callers
\* in any interleaving, on a CPU that one of them starts and stops
NextRef ==
    \/ \E c \in Callers :
          \/ \E req \in PartRequests, ok \in BOOLEAN : CtlInstall(c, req, ok)
          \/ CtlUninstall(c)
          \/ CtlPut(c)
          \/ CtlGet(c, MaxWin, TRUE)
          \/ CtlGetCopy(c)
    \/ CtlStart("c1", 0)
    \/ CtlStop("c1")
    \/ ClockTick(MaxRun)
    \/ Fire

SpecRef == Init /\ [][NextRef]_vars

\* the frame timer against starts and stops issued from another CPU: the
\* handler is entered in one step and gets rq->lock in a later one
NextTick ==
    \/ ClockTick(MaxTime)
    \/ Dispatch
    \/ TickLocked
    \/ CtlStart("c1", 0)
    \/ CtlStop("c1")
    \/ \E req \in FrameRequests : tp.gps = NoSched /\ CtlInstall("c1", req, TRUE)

SpecTick == Init /\ [][NextTick]_vars

\* the frame timer against every control call that takes rq->lock, issued
\* from another CPU: starts, stops, switches of tables of one size, gets
NextLock ==
    \/ ClockTick(MaxRun)
    \/ Dispatch
    \/ TickLocked
    \/ CtlStart("c1", 0)
    \/ CtlStop("c1")
    \/ \E req \in RunRequests : CtlInstall("c1", req, TRUE)
    \/ CtlPut("c1")
    \/ CtlGet("c2", MaxWin, TRUE)
    \/ CtlGetCopy("c2")

SpecLock == Init /\ [][NextLock]_vars

\* a CPU that is started once and keeps running, every firing handled at
\* its date and every rescheduling done at once, with threads of any
\* partition waking up and blocking
NextLive ==
    \/ ClockOnTime
    \/ Fire
    \/ Schedule
    \/ /\ ~tp.tf_timer.running
       /\ CtlStart("c1", 0)
    \/ /\ tp.gps = NoSched
       /\ \E req \in RunRequests : CtlInstall("c1", req, TRUE)
    \/ \E th \in Threads :
          \/ \E ptid \in Parts : Attach(th, ptid, EVL_TP_MIN_PRIO)
          \/ Enqueue(th)
          \/ Sleep(th)

\* the clock ticks, the timer core runs the handler of an elapsed timer and
\* the core reschedules when asked to
SpecLive ==
    /\ Init
    /\ [][NextLive]_vars
    /\ WF_vars(ClockOnTime)
    /\ WF_vars(Fire)
    /\ WF_vars(Schedule)

\* the frame timer against switches to tables of any size and to no table,
\* issued from another CPU
NextDeref ==
    \/ ClockTick(MaxRun)
    \/ Dispatch
    \/ TickLocked
    \/ \E part \in (Parts \cup {-1}), faults \in BOOLEAN : TickWild(part, faults)
    \/ CtlStart("c1", 0)
    \/ CtlStop("c1")
    \/ \E req \in FrameRequests : CtlInstall("c1", req, TRUE)
    \/ CtlUninstall("c1")
    \/ CtlPut("c1")

SpecDeref == Init /\ [][NextDeref]_vars

\* the parameters a boosting thread may hand over
Params == [ptid : Parts, prio : EVL_TP_MIN_PRIO..EVL_TP_MAX_PRIO]

\* threads of a running schedule whose priority is tracked, and which migrate
NextPrio ==
    \/ \E req \in PartRequests : tp.gps = NoSched /\ CtlInstall("c1", req, TRUE)
    \/ CtlStart("c1", 0)
    \/ ClockTick(MaxRun)
    \/ Fire
    \/ \E th \in Threads :
          \/ \E p \in Params : Attach(th, p.ptid, p.prio)
          \/ Enqueue(th)
          \/ Dequeue(th)
          \/ \E p \in Params \cup {NoParam} : TrackPrio(th, p)
          \/ \E prio \in (EVL_TP_MIN_PRIO - 1)..(EVL_TP_MAX_PRIO + 1) : CeilPrio(th, prio)
          \/ Migrate(th)
    \/ Pick

SpecPrio == Init /\ [][NextPrio]_vars

\* the frame timer firing on time or late, on a thread that may overrun
NextOver ==
    \/ \E req \in RunRequests : tp.gps = NoSched /\ CtlInstall("c1", req, TRUE)
    \/ CtlStart("c1", 0)
    \/ CtlStop("c1")
    \/ ClockTick(MaxTime)
    \/ Fire
    \/ \E ptid \in Parts : Attach("t1", ptid, EVL_TP_MIN_PRIO)
    \/ Enqueue("t1")
    \/ Sleep("t1")
    \/ \E th \in Threads : SetMode(th)
    \/ RunOther("t2")
    \/ Sleep("t2")
    \/ Pick

SpecOver == Init /\ [][NextOver]_vars

\* entries and exits, nested up to MaxNest, around code that changes stage
\* and disables or enables the in-band interrupts
NextEntry ==
    \/ \E user \in BOOLEAN : IrqEntryEnter(user)
    \/ IrqEntryExit
    \/ \E irqs_enabled \in BOOLEAN : KernelEnter(irqs_enabled)
    \/ KernelExit
    \/ InbandIrqs
    \/ StageSwitch
    \/ LogIrq

SpecEntry == Init /\ [][NextEntry]_vars

\* the partition ids and the priorities a caller may give, valid or not
AnyPtid == NullPart..NR_PART

AnyPrio == (EVL_TP_MIN_PRIO - 1)..(EVL_TP_MAX_PRIO + 1)

\* threads checked, attached and detached while tables come and go
NextParam ==
    \/ \E c \in {"c1", "c2"} :
          \/ \E req \in PartRequests, ok \in BOOLEAN : CtlInstall(c, req, ok)
          \/ CtlUninstall(c)
          \/ CtlPut(c)
    \/ CtlGet("c3", MaxWin, TRUE)
    \/ CtlGetCopy("c3")
    \/ \E ptid \in AnyPtid, prio \in AnyPrio : ChkParam("t1", ptid, prio)
    \/ \E th \in Threads, ptid \in Parts : Attach(th, ptid, EVL_TP_MIN_PRIO)
    \/ \E th \in Threads : Forget(th)

SpecParam == Init /\ [][NextParam]_vars

\* install and get as functions of the request: the perturbed requests on
\* the CPU as tp_init left it, some requests at any time, with one thread to attach
NextIO ==
    \/ /\ tp.gps = NoSched
       /\ last.op = "none"
       /\ \E req \in PerturbedRequests, ok \in BOOLEAN : CtlInstall("c1", req, ok)
    \/ /\ tp.gps # NoSched
       /\ \E req \in FrameRequests \cup BadRequests : CtlInstall("c1", req, TRUE)
    \/ Attach("t1", 0, EVL_TP_MIN_PRIO)
    \/ Forget("t1")
    \/ \E max \in 0..(MaxWin + 1) : CtlGet("c1", max, TRUE)
    \/ CtlGetCopy("c1")
    \/ CtlUninstall("c1")
    \/ CtlPut("c1")

SpecIO == Init /\ [][NextIO]_vars

(***************************************************************************)
(* What the claims speak of.                                               *)
(***************************************************************************)
\* the installed table
Table == heap[tp.gps]

\* the CPU states of the control interface
Uninstalled == tp.gps = NoSched

InstalledStopped == tp.gps # NoSched /\ ~tp.tf_timer.running

Running == tp.gps # NoSched /\ tp.tf_timer.running

\* the partition of window i (from 0) of table g, the idle one for -1
WindowPart(g, i) == IF g.pwins[i + 1].w_part < 0 THEN IdlePart ELSE g.pwins[i + 1].w_part

\* where window i (from 0) of table g starts and ends in its frame
WindowStart(g, i) == g.pwins[i + 1].w_offset

WindowEnd(g, i) == IF i + 1 = g.pwin_nr THEN g.tf_duration ELSE g.pwins[i + 2].w_offset

\* the sum of the durations of the first n windows of a request
RECURSIVE SumDurations(_, _)
SumDurations(windows, n) ==
    IF n = 0 THEN 0
    ELSE SumDurations(windows, n - 1) + u_timespec_to_ktime(windows[n].duration)

\* a window list as the interface wants it
ValidWindows(windows) ==
    \A i \in 1..Len(windows) :
        /\ u_timespec_to_ktime(windows[i].offset) = SumDurations(windows, i - 1)
        /\ u_timespec_to_ktime(windows[i].duration) > 0
        /\ windows[i].ptid \in -1..(NR_PART - 1)

(***************************************************************************)
(* C1.  Partition isolation: a thread returned by tp_pick was queued in    *)
(* the run queue of the partition of the window activated last, which is   *)
(* the active queue tp.tps; no thread of another partition is returned,    *)
(* and nothing is returned while the active window is an idle one.         *)
(***************************************************************************)
C1_PartitionIsolation ==
    (last.op = "pick" /\ last.thread # NoThread) =>
        /\ Running
        /\ hist.wact >= 0
        /\ WindowPart(Table, hist.wact) # IdlePart
        /\ thread[last.thread].tps = WindowPart(Table, hist.wact)
        /\ thread[last.thread].tps = tp.tps

\* tp_pick returned a thread while a thread of another partition was queued
C1_Witness ==
    /\ last.op = "pick"
    /\ last.thread # NoThread
    /\ \E q \in Parts : q # thread[last.thread].tps /\ runnable[q] # <<>>

(***************************************************************************)
(* C2.  tp_pick returns no thread unless the CPU is Running: none when no  *)
(* table is installed, none when the table is there and the frame timer    *)
(* is stopped, whatever the run queues hold.                               *)
(***************************************************************************)
C2_PickOnlyWhenRunning ==
    (last.op = "pick" /\ (Uninstalled \/ InstalledStopped)) => last.thread = NoThread

\* tp_pick ran with the timer stopped and a thread queued in the partition left active
C2_Witness ==
    /\ last.op = "pick"
    /\ InstalledStopped
    /\ tp.tps \in Parts
    /\ runnable[tp.tps] # <<>>

(***************************************************************************)
(* C3.  Window order: the window a timer firing activates is the successor *)
(* modulo N of the window activated by the advance before it, unless that  *)
(* advance ran the resynchronization loop.                                 *)
(***************************************************************************)
C3_WindowOrder ==
    [][(last'.op = "tick" /\ hist.loops = 0) =>
          hist'.wact = (hist.wact + 1) % Table.pwin_nr]_vars

\* a firing handled on time has activated window 0 again, a frame after the start
C3_Witness ==
    /\ last.op = "tick"
    /\ hist.ontime
    /\ Table.pwin_nr >= 2
    /\ hist.wact = 0
    /\ tp.tf_start > hist.S

(***************************************************************************)
(* C4.  On-time frames: started at S with every firing handled at its      *)
(* date, window i of some frame k is active from S + k*D + offset_i on,    *)
(* the active queue is the one of its partition, and the timer is armed    *)
(* for the end of that window, S + k*D + offset_(i+1) (the frame end for   *)
(* the last window).                                                       *)
(***************************************************************************)
C4_OnTimeWindows ==
    (Running /\ hist.ontime /\ now <= tp.tf_timer.date) =>
        \E k \in 0..MaxTime :
            /\ hist.S + k * Table.tf_duration + WindowStart(Table, hist.wact) <= now
            /\ tp.tf_timer.date = hist.S + k * Table.tf_duration + WindowEnd(Table, hist.wact)
            /\ tp.tps = WindowPart(Table, hist.wact)

C6_BusyIffAttached ==
    [][(last'.op \in {"install", "uninstall"} /\ last'.locked) =>
          /\ last'.ret = -EBUSY <=> tp.threads # {}
          /\ last'.ret = 0 <=> tp.threads = {}]_vars

\* an uninstall succeeded on a CPU that has no thread attached any more
\* and still has the table the thread was attached under
C6_Witness ==
    /\ last.op = "uninstall"
    /\ last.ret = 0
    /\ last.locked
    /\ thread["t1"].bprio = EVL_TP_MIN_PRIO
    /\ thread["t1"].base_class # "tp"

(***************************************************************************)
(* C7.  A control call that returns an error leaves the TP state of the    *)
(* CPU as it was: the table, the timer and its date, the next window, the  *)
(* frame start, the active queue, the attached threads; and the tables     *)
(* keep their reference counts, but for the reference a get gives back:    *)
(* a table is then held once by the CPU it is installed on and once by     *)
(* every call still at work on it.                                         *)
(***************************************************************************)
C7_ErrorLeavesState ==
    [][(last'.done /\ last'.ret < 0) =>
          /\ tp' = tp
          /\ UNCHANGED <<runnable, thread, curr, resched, hist, now>>
          /\ \/ heap' = heap
             \/ /\ last'.op = "get"
                /\ \E c \in Callers :
                      /\ call[c].pc = "get"
                      /\ call'[c].pc = "idle"
                      /\ heap' = put_tp_schedule(heap, call[c].gps)
          /\ \A id \in Tables :
                heap'[id].live =>
                    heap'[id].refcount =
                        (IF tp.gps = id THEN 1 ELSE 0)
                        + Cardinality({c \in Callers : call'[c].pc # "idle" /\ call'[c].gps = id})]_vars

\* an install was refused for the attached thread and the frame timer runs on
C7_Witness ==
    /\ last.op = "install"
    /\ last.ret = -EBUSY
    /\ Running

(***************************************************************************)
(* C8.  An install of a non-empty window list is accepted if and only if   *)
(* every entry has for offset the sum of the durations before it, a        *)
(* duration above 0 and a partition in -1..NR_PART-1; it returns -EINVAL   *)
(* otherwise.                                                              *)
(***************************************************************************)
C8_AcceptedIffValid ==
    (last.op = "install" /\ (last.locked \/ last.ret # 0) /\ last.req # <<>>) =>
        /\ last.ret = 0 <=> ValidWindows(last.req)
        /\ last.ret # 0 => last.ret = -EINVAL

(***************************************************************************)
(* C8, as the code has it.  An install of a non-empty window list whose    *)
(* table could be allocated returns -EINVAL if and only if some entry has  *)
(* not for offset the sum of the durations before it, a duration above 0   *)
(* and a partition in -1..NR_PART-1; a list that passes is accepted if and *)
(* only if no thread is attached, and gets -EBUSY otherwise.  An install   *)
(* whose table could not be allocated returns -ENOMEM whatever the list.   *)
(***************************************************************************)
C8_InstallValidation ==
    [][(last'.op = "install" /\ (last'.locked \/ last'.ret # 0) /\ last'.req # <<>>) =>
          /\ last'.ret \in {0, -EINVAL, -EBUSY, -ENOMEM}
          /\ last'.ret # -ENOMEM =>
                /\ last'.ret = -EINVAL <=> ~ValidWindows(last'.req)
                /\ last'.ret = 0 <=> (ValidWindows(last'.req) /\ tp.threads = {})
                /\ last'.ret = -EBUSY <=> (ValidWindows(last'.req) /\ tp.threads # {})]_vars

\* a second window that starts before the first one ends was refused
C8_Witness ==
    /\ last.op = "install"
    /\ last.ret = -EINVAL
    /\ Len(last.req) = 2
    /\ u_timespec_to_ktime(last.req[1].offset) = 0
    /\ u_timespec_to_ktime(last.req[1].duration) = 2
    /\ u_timespec_to_ktime(last.req[2].offset) = 1
    /\ u_timespec_to_ktime(last.req[2].duration) = 2
    /\ last.req[1].ptid = 0
    /\ last.req[2].ptid = 1

(***************************************************************************)
(* C9.  The installed table has at least one window, its first window      *)
(* starts at 0, its offsets increase strictly, and its frame duration is   *)
(* the sum of the durations given at install, above its last offset.       *)
(***************************************************************************)
C9_TableWellFormed ==
    ~Uninstalled =>
        /\ Table.live
        /\ Table.pwin_nr >= 1
        /\ Len(Table.pwins) = Table.pwin_nr
        /\ Len(hist.req) = Table.pwin_nr
        /\ Table.pwins[1].w_offset = 0
        /\ \A i \in 1..(Table.pwin_nr - 1) : Table.pwins[i].w_offset < Table.pwins[i + 1].w_offset
        /\ Table.tf_duration = SumDurations(hist.req, Len(hist.req))
        /\ Table.tf_duration > Table.pwins[Table.pwin_nr].w_offset

\* a table of MaxWin windows of different durations is installed
C9_Witness ==
    /\ ~Uninstalled
    /\ Table.pwin_nr = MaxWin
    /\ \E i, j \in 1..MaxWin : hist.req[i].duration # hist.req[j].duration

(***************************************************************************)
(* C10.  Round trip: a get of the table just installed, with room for all  *)
(* its windows, returns the window count and, entry by entry, the offset,  *)
(* the duration and the partition given to the install.                    *)
(***************************************************************************)
C10_GetRoundTrip ==
    (last.op = "get" /\ last.done /\ last.ret >= 0 /\ ~Uninstalled
     /\ last.gps = tp.gps /\ last.max >= Len(hist.req)) =>
        /\ last.info.nr_windows = Len(hist.req)
        /\ last.info.len = Len(hist.req)
        /\ \A i \in 1..Len(hist.req) :
              /\ last.info.windows[i - 1].set = {"offset", "duration", "ptid"}
              /\ last.info.windows[i - 1].offset = hist.req[i].offset
              /\ last.info.windows[i - 1].duration = hist.req[i].duration
              /\ last.info.windows[i - 1].ptid = hist.req[i].ptid
        /\ \A i \in BufIdx : i >= Len(hist.req) => last.info.windows[i].set = {}

\* a get returned the MaxWin windows of a table, of different durations
C10_Witness ==
    /\ last.op = "get"
    /\ last.done
    /\ last.ret = MaxWin
    /\ \E i, j \in 1..MaxWin : hist.req[i].duration # hist.req[j].duration
    /\ last.info.windows[0].duration = hist.req[1].duration

(***************************************************************************)
(* C11.  A get with any max_windows reports the window count of the table  *)
(* and writes the entries 0..min(max_windows, count)-1 and no other, each  *)
(* with the offset, the duration and the partition given to the install    *)
(* for the window of the same index.                                       *)
(***************************************************************************)
C11_GetTruncated ==
    (last.op = "get" /\ last.done /\ last.ret >= 0 /\ ~Uninstalled /\ last.gps = tp.gps) =>
        LET count == Len(hist.req)
            len == IF last.max < count THEN last.max ELSE count
        IN  /\ last.info.nr_windows = count
            /\ last.info.len = len
            /\ \A i \in BufIdx :
                  IF i < len
                  THEN /\ last.info.windows[i].set = {"offset", "duration", "ptid"}
                       /\ last.info.windows[i].offset = hist.req[i + 1].offset
                       /\ last.info.windows[i].duration = hist.req[i + 1].duration
                       /\ last.info.windows[i].ptid = hist.req[i + 1].ptid
                  ELSE last.info.windows[i].set = {}

\* table id is held once by the CPU it is installed on and once by every
\* call at work on it, in heap h with the calls cl
Holders(id, cl) ==
    (IF tp.gps = id THEN 1 ELSE 0)
    + Cardinality({c \in Callers : cl[c].pc # "idle" /\ cl[c].gps = id})

(***************************************************************************)
(* C12.  A get that succeeds leaves the scheduling state alone: the        *)
(* installed table and its windows, the timer and its date, the next       *)
(* window, the frame start, the active queue and the run queues.  Its      *)
(* first step takes one reference on the installed table and its last      *)
(* step gives it back, so the table has after the call the count it had    *)
(* before, one for the CPU and one for every other call at work on it.     *)
(***************************************************************************)
C12_GetLeavesState ==
    [][(last'.op = "get" /\ last'.ret >= 0) =>
          /\ tp' = tp
          /\ UNCHANGED <<runnable, thread, curr, resched, now, hist>>
          /\ \A id \in Tables :
                [heap'[id] EXCEPT !.refcount = 0] = [heap[id] EXCEPT !.refcount = 0]
          /\ \A c \in Callers :
                /\ (call[c].pc = "idle" /\ call'[c].pc = "get") =>
                      /\ call'[c].gps = tp.gps
                      /\ heap'[tp.gps].refcount = heap[tp.gps].refcount + 1
                      /\ \A id \in Tables \ {tp.gps} : heap'[id] = heap[id]
                /\ (call[c].pc = "get" /\ call'[c].pc = "idle") =>
                      /\ heap'[call[c].gps].refcount = heap[call[c].gps].refcount - 1
                      /\ heap'[call[c].gps].refcount = Holders(call[c].gps, call')
                      /\ \A id \in Tables \ {call[c].gps} : heap'[id] = heap[id]
          /\ (tp.gps = NoSched) => heap' = heap]_vars

\* a get returned the windows of a table while the frame timer runs and a
\* thread waits in its partition
C12_Witness ==
    /\ last.op = "get"
    /\ last.done
    /\ last.ret > 0
    /\ Running
    /\ runnable[0] # <<>>
    /\ heap[tp.gps].refcount = 1

(***************************************************************************)
(* C13.  No use after free: whatever the interleaving of gets, installs    *)
(* and uninstalls, a table that is installed or that a call still works    *)
(* on (a get before its copy and put, a switch before its put of the old   *)
(* table) is not freed and counts one reference per holder; a table is     *)
(* freed only by the put that drops its last reference, and no put is      *)
(* ever pending on a table that is free.                                   *)
(***************************************************************************)
C13_NoUseAfterFree ==
    [][\A id \in Tables :
          /\ heap'[id].live =>
                /\ heap'[id].refcount >= 1
                /\ heap'[id].refcount = Holders(id, call)'
          /\ Holders(id, call)' > 0 => heap'[id].live
          /\ (heap[id].live /\ ~heap'[id].live) =>
                /\ heap[id].refcount = 1
                /\ \E c \in Callers :
                      /\ call[c].pc # "idle"
                      /\ call[c].gps = id
                      /\ call'[c].pc = "idle"
          /\ ~heap'[id].live => heap'[id] = FreeBlock]_vars

\* an uninstall has returned while two gets still hold the table it removed
C13_Witness ==
    /\ last.op = "uninstall"
    /\ last.done
    /\ Uninstalled
    /\ \E id \in Tables, c, d \in Callers :
          /\ c # d
          /\ call[c].pc = "get"
          /\ call[d].pc = "get"
          /\ call[c].gps = id
          /\ call[d].gps = id
          /\ heap[id].live
          /\ heap[id].refcount = 2

C15_StartStopKeepTable ==
    [][(last'.op \in {"start", "stop"}) =>
          /\ tp'.gps = tp.gps
          /\ heap' = heap
          /\ tp'.threads = tp.threads
          /\ UNCHANGED <<runnable, thread, curr, call>>
          /\ last'.ret = 0
          /\ last'.op = "stop" =>
                /\ ~tp'.tf_timer.running
                /\ tp' = [tp EXCEPT !.tf_timer.running = FALSE]]_vars

\* a start has set going a table that a get holds as well
C15_Witness ==
    /\ last.op = "start"
    /\ Running
    /\ tp.wnext = 1 % Table.pwin_nr
    /\ Table.refcount = 2

(***************************************************************************)
(* C16.  A start and a stop on a CPU without table return 0 and do         *)
(* nothing: the TP state is as before, the timer stopped, the active       *)
(* queue the one it was, if any, and tp_pick still returns no thread.      *)
(***************************************************************************)
C16_NoTableNoOp ==
    [][(last'.op \in {"start", "stop"} /\ tp.gps = NoSched) =>
          /\ last'.ret = 0
          /\ tp' = tp
          /\ ~tp'.tf_timer.running
          /\ tp_pick(tp', runnable') = NoThread
          /\ UNCHANGED <<heap, runnable, thread, curr, resched, hist>>]_vars

\* a start did nothing on a CPU whose table, once run, was uninstalled
C16_Witness ==
    /\ last.op = "start"
    /\ ~last.started
    /\ Uninstalled
    /\ tp.tps \in Queues
    /\ now > tp.tf_start

(***************************************************************************)
(* C17.  A start on a CPU with a table makes it Running: unless the        *)
(* resynchronization loop ran, the frame start is the time of the start,   *)
(* window 0 is the active one, with the queue of its partition or the      *)
(* idle queue, the next window is 1 modulo N and the timer is armed for    *)
(* the end of window 0.                                                    *)
(***************************************************************************)
C17_StartRuns ==
    (last.op = "start" /\ last.started /\ hist.loops = 0) =>
        /\ Running
        /\ tp.tf_start = hist.S
        /\ hist.wact = 0
        /\ tp.tps = WindowPart(Table, 0)
        /\ tp.wnext = 1 % Table.pwin_nr
        /\ tp.tf_timer.date = hist.S + WindowEnd(Table, 0)

\* C18: once Stop has returned and until the next Start, no step advances the
\* window, re-arms the frame timer or changes the active partition, a tick
\* handler that was spinning on rq->lock during the Stop included
C18_StopIsFinal ==
    [][(InstalledStopped /\ last'.op # "start")
       => /\ tp'.wnext = tp.wnext
          /\ tp'.tps = tp.tps
          /\ tp'.tf_timer = tp.tf_timer
          /\ tp'.tf_start = tp.tf_start]_vars

\* the thread is linked to the runnable queue q
Linked(th, q) == \E i \in 1..Len(q) : q[i] = th

\* C19: a track_priority or ceiling_priority call on a TP thread leaves its
\* partition, its class and its base priority as they were, and every other
\* thread too; only its current priority changes, to the priority of the
\* parameters if some are given and to its base priority if none is; a ready
\* thread stays in the queue of its partition
C19_TrackKeepsPartition ==
    [][last'.op \in {"trackprio", "ceilprio"}
       => LET th == last'.thread
          IN  /\ thread[th].base_class = "tp"
              /\ thread'[th] = [thread[th] EXCEPT !.cprio = thread'[th].cprio]
              /\ \A o \in Threads \ {th} : thread'[o] = thread[o]
              /\ tp' = tp
              /\ last'.op = "trackprio"
                 => thread'[th].cprio = IF last'.p # NoParam THEN last'.p.prio
                                        ELSE thread[th].bprio
              /\ \A q \in Queues :
                    Linked(th, runnable'[q])
                    <=> (thread[th].st = "ready" /\ q = thread[th].tps)]_vars

\* a ready thread boosted by parameters that name the other partition
C19_Witness ==
    /\ last.op = "trackprio"
    /\ last.p # NoParam
    /\ last.warned
    /\ thread[last.thread].st = "ready"
    /\ thread[last.thread].cprio # thread[last.thread].bprio

\* C20: the migration of a TP thread leaves it under the FIFO class with the
\* current priority it had as its priority, off the list of TP threads of
\* the CPU it leaves, without partition and off every partition queue
C20_MigrateToFifo ==
    [][last'.op = "migrate"
       => LET th == last'.thread
          IN  /\ thread[th].base_class = "tp"
              /\ th \in tp.threads
              /\ thread'[th].base_class = "fifo"
              /\ thread'[th].cprio = thread[th].cprio
              /\ thread'[th].bprio = thread[th].cprio
              /\ th \notin tp'.threads
              /\ thread'[th].tps = NullPart
              /\ \A q \in Queues : ~Linked(th, runnable'[q])]_vars

\* a thread that was boosted and ready has migrated
C20_Witness ==
    /\ last.op = "migrate"
    /\ last.prio # last.bprio
    /\ thread[last.thread].base_class = "fifo"
    /\ thread[last.thread].st = "ready"
    /\ last.thread \notin tp.threads

\* C21: check_param returns 0 if and only if a table is installed on the
\* CPU, the priority is within [EVL_TP_MIN_PRIO, EVL_TP_MAX_PRIO] and the
\* partition id within [0, NR_PART), the idle partition -1 being refused;
\* otherwise it returns -EINVAL; either way it changes nothing
C21_ChkParam ==
    [][last'.op = "chkparam"
       => /\ last'.ret = 0
             <=> /\ ~Uninstalled
                 /\ last'.prio \in EVL_TP_MIN_PRIO..EVL_TP_MAX_PRIO
                 /\ last'.ptid \in 0..(NR_PART - 1)
          /\ last'.ret \in {0, -EINVAL}
          /\ UNCHANGED <<tp, runnable, heap, thread, curr, resched>>]_vars

\* the idle partition was refused, with a table installed and a good priority
C21_Witness ==
    /\ last.op = "chkparam"
    /\ last.ret = -EINVAL
    /\ last.ptid = IdlePart
    /\ last.prio = EVL_TP_MIN_PRIO
    /\ ~Uninstalled

\* C22: the window index an overrun notification carries is the index of the
\* window that was active when the timer fired
C22_OverrunIndex ==
    [][(last'.op = "tick" /\ last'.overrun_frame >= 0)
       => last'.overrun_frame = hist.wact]_vars

\* how many of the first k events take rq->lock, less those that release it
RECURSIVE Held(_, _)
Held(ev, k) ==
    IF k = 0 THEN 0
    ELSE Held(ev, k - 1) + (IF ev[k] = "lock" THEN 1 ELSE IF ev[k] = "unlock" THEN -1 ELSE 0)

\* C23: a firing notifies at most once; it notifies if and only if the
\* thread current at the firing has EVL_T_WOSO set and no blocking bit, that
\* thread being the one notified; and it notifies with rq->lock released
C23_NotifyOnceUnlocked ==
    [][last'.op = "tick"
       => LET ev == last'.events
              at == {k \in 1..Len(ev) : ev[k] = "notify"}
          IN  /\ Cardinality(at) <= 1
              /\ at # {} <=> /\ curr # NoThread
                             /\ thread[curr].woso
                             /\ thread[curr].st # "blocked"
              /\ at # {} <=> last'.notified # NoThread
              /\ last'.notified \in {NoThread, curr}
              /\ \A k \in at : Held(ev, k) = 0
              /\ \E k \in 1..Len(ev) : ev[k] = "advance" /\ Held(ev, k) = 1]_vars

\* a firing has notified the thread that was running with EVL_T_WOSO set
C23_Witness ==
    /\ last.op = "tick"
    /\ last.notified = curr
    /\ curr # NoThread
    /\ thread[curr].base_class = "tp"
    /\ \E k \in 1..Len(last.events) : last.events[k] = "notify"

\* C24: a firing notifies only a thread of the TP class that belongs to the
\* partition of the window that ends
C24_NotifiedIsTp ==
    [][(last'.op = "tick" /\ last'.notified # NoThread)
       => /\ thread[last'.notified].base_class = "tp"
          /\ thread[last'.notified].tps = tp.tps]_vars

\* C25: whenever a thread is attached to the TP class of the CPU, a table is
\* installed there and its block has not been freed
C25_AttachedHasTable ==
    tp.threads # {}
    => /\ tp.gps # NoSched
       /\ heap[tp.gps].live
       /\ heap[tp.gps].refcount >= 1

\* a switch of table was refused with a thread attached, while a get holds
\* a reference on the table
C25_Witness ==
    /\ tp.threads # {}
    /\ last.op \in {"install", "uninstall"}
    /\ last.ret = -EBUSY
    /\ tp.gps # NoSched
    /\ heap[tp.gps].refcount >= 2

\* C26: an entry taken in-band whose exit is reached in-band leaves the
\* in-band stall bit as the entry found it: stalled if it was stalled,
\* unstalled if it was not
C26_StallRestored ==
    [][(/\ last'.op \in {"irqentry_exit", "exit_to_kernel_mode"}
        /\ ~last'.frame.was_oob
        /\ ~entry'.oob)
       => entry'.stalled = last'.frame.was_stalled]_vars

\* a nested entry taken from kernel mode with the stage unstalled has
\* returned through irqentry_exit
C26_Witness ==
    /\ last.op = "irqentry_exit"
    /\ ~last.frame.user
    /\ ~last.frame.was_oob
    /\ ~last.frame.was_stalled
    /\ ~entry.oob
    /\ ~entry.stalled
    /\ entry.frames # <<>>

\* C30: when irqentry_enter returns from an entry taken in-band, from user
\* or kernel mode, the in-band stage is stalled, whatever it was; an entry
\* taken out-of-band leaves the stall bit as it was
C30_EnterStalls ==
    [][last'.op = "irqentry_enter"
       => /\ entry'.oob = entry.oob
          /\ IF entry.oob THEN entry'.stalled = entry.stalled ELSE entry'.stalled
          /\ entry'.pending = entry.pending]_vars

\* an entry from kernel mode found the in-band stage unstalled
C30_Witness ==
    /\ last.op = "irqentry_enter"
    /\ ~last.frame.user
    /\ ~last.frame.was_oob
    /\ ~last.frame.was_stalled
    /\ entry.stalled

\* C27: every window advance, by a start or by a firing, leaves the frame
\* timer armed for a date that is not earlier than the clock the advance
\* read, and the run queue marked for rescheduling
C27_AdvanceArmsTimer ==
    [][(last'.op = "tick" \/ (last'.op = "start" /\ last'.started))
       => /\ Running'
          /\ tp'.tf_timer.date >= now'
          /\ resched']_vars

\* a late firing whose loop ran has armed the timer
C27_Witness ==
    /\ last.op = "tick"
    /\ hist.loops >= 1
    /\ Running
    /\ tp.tf_timer.date >= now
    /\ resched

\* the step recorded in l went through rq->lock or the heap
HasEvents(l) == "events" \in DOMAIN l

\* the places of the event e in the sequence ev
At(ev, e) == {k \in 1..Len(ev) : ev[k] = e}

\* C29: no schedule table is allocated or freed with rq->lock held: the new
\* table is allocated before the lock is taken, every put_tp_schedule and
\* evl_free comes with the lock released, and every step leaves the lock
\* released; a block enters or leaves the heap only in a step that allocates
\* or frees
C29_HeapOutsideLock ==
    [][/\ heap' # heap => HasEvents(last')
       /\ HasEvents(last')
          => LET ev == last'.events
             IN  /\ \A k \in At(ev, "alloc") \cup At(ev, "free") \cup At(ev, "put") :
                       Held(ev, k) = 0
                 /\ \A k \in At(ev, "alloc"), j \in At(ev, "lock") : k < j
                 /\ \A k \in At(ev, "free") \cup At(ev, "put"), j \in At(ev, "unlock") : j < k
                 /\ \A k \in 1..Len(ev) : Held(ev, k) \in {0, 1}
                 /\ Held(ev, Len(ev)) = 0
                 /\ \A k \in At(ev, "swap") \cup At(ev, "ref") : Held(ev, k) = 1
                 /\ (\E id \in DOMAIN heap : ~heap[id].live /\ heap'[id].live)
                       => At(ev, "alloc") # {}
                 /\ (\E id \in DOMAIN heap : heap[id].live /\ ~heap'[id].live)
                       => At(ev, "free") # {}]_vars

\* an install has been refused with -EBUSY and its new table freed after the
\* lock was released, while the table in place stays
C29_Witness ==
    /\ last.op = "install"
    /\ last.ret = -EBUSY
    /\ HasEvents(last)
    /\ At(last.events, "alloc") # {}
    /\ At(last.events, "free") # {}
    /\ tp.gps # NoSched
    /\ heap[tp.gps].live

\* the events of a step that act on the per-CPU TP state or on the
\* reference count of its table
StateEvents(ev) ==
    At(ev, "advance") \cup At(ev, "start") \cup At(ev, "stop") \cup
    At(ev, "swap") \cup At(ev, "ref")

\* C28: the window advance of the tick handler, Start, Stop, the switch of
\* tables and the reference bump of Get each run with rq->lock held, the
\* per-CPU state changing in no other step; and none of them finds a state
\* another left half-way: the handler never advances the window straight
\* after a successful switch of tables, whose window index no Start has reset
C28_LockedSections ==
    [][/\ HasEvents(last') => \A k \in StateEvents(last'.events) : Held(last'.events, k) = 1
       /\ (\/ tp'.gps # tp.gps \/ tp'.wnext # tp.wnext \/ tp'.tps # tp.tps
           \/ tp'.tf_start # tp.tf_start \/ tp'.tf_timer # tp.tf_timer)
          => HasEvents(last') /\ StateEvents(last'.events) # {}
       /\ last'.op = "tick"
          => ~(last.op \in {"install", "uninstall"} /\ last.ret = 0)]_vars

\* C31: when irqentry_exit returns to kernel mode on the in-band stage from
\* an entry that had found the stage unstalled or had been taken
\* out-of-band, the interrupts logged for the in-band stage have been played
\* and the stage is unstalled: none is pending once the exit completes
C31_ExitSynchronizes ==
    [][(/\ last'.op = "irqentry_exit"
        /\ ~entry.oob
        /\ ~last'.frame.user
        /\ last'.frame.stage_info \in {"inband_unstalled", "oob"})
       => /\ ~entry'.pending
          /\ ~entry'.stalled]_vars

\* an exit to kernel mode has run in-band with an interrupt in the log, from
\* an entry that had found the stage unstalled, and has left the log empty
C31_Witness ==
    /\ last.op = "irqentry_exit"
    /\ ~last.oob
    /\ last.pending
    /\ ~last.frame.user
    /\ last.frame.stage_info = "inband_unstalled"
    /\ ~entry.pending
    /\ ~entry.stalled

\* C32: whenever the frame timer is running or tp_tick_handler has been
\* entered, a table is installed and not freed, next_window_index lies in
\* [0, pwin_nr) of that table and the active partition is set
C32_HandlerSeesTable ==
    (tp.tf_timer.running \/ tick = "spinning")
    => /\ tp.gps # NoSched
       /\ heap[tp.gps].live
       /\ tp.wnext \in 0..(heap[tp.gps].pwin_nr - 1)
       /\ tp.tps # NullPart

\* C33: from a Start at time S on, through on-time and late firings, the
\* frame start is S plus a whole number of frame durations, and no firing
\* moves it backwards
C33_NoFrameDrift ==
    [][/\ (hist'.wact >= 0 /\ tp'.gps # NoSched)
          => \E k \in 0..(MaxTime + 2) :
                tp'.tf_start = hist'.S + k * heap'[tp'.gps].tf_duration
       /\ last'.op = "tick" => tp'.tf_start >= tp.tf_start]_vars

\* a late firing has jumped over a frame of more than one clock unit, the
\* frame start standing two frames or more after the Start
C33_Witness ==
    /\ Running
    /\ last.op = "tick"
    /\ hist.wact >= 0
    /\ hist.loops > 0
    /\ Table.tf_duration > 1
    /\ tp.tf_start >= hist.S + 2 * Table.tf_duration

\* C34: an advance that jumped (the loop of tp_schedule_next ran) leaves the
\* timer armed for the new frame start, the window index at 0 and the
\* partition of the window it activated late as the active partition; that
\* partition stays until the next firing, which comes no sooner than that
\* frame boundary and activates window 0, no window in between
C34_JumpToBoundary ==
    [][/\ (last'.op \in {"tick", "start"} /\ tp.gps # NoSched /\ hist'.loops > 0)
          => /\ tp'.tf_timer.running
             /\ tp'.tf_timer.date = tp'.tf_start
             /\ tp'.wnext = 0
             /\ tp'.tps = WindowPart(Table, hist'.wact)
             /\ \E k \in 1..(MaxTime + 2) :
                   tp'.tf_start = hist'.S + k * Table.tf_duration
       /\ (Running /\ hist.loops > 0 /\ last'.op \notin {"tick", "start"})
          => tp'.tps = tp.tps /\ tp'.wnext = tp.wnext /\ tp'.tf_start = tp.tf_start
       /\ (Running /\ hist.loops > 0 /\ last'.op = "tick")
          => /\ now >= tp.tf_start
             /\ hist'.wact = 0
             /\ tp'.tps = WindowPart(Table, 0)]_vars

\* a firing has activated window 0 of a table of several windows so late
\* that the advance jumped: the windows after it are skipped, its partition
\* is the active one and the timer waits for the next frame boundary
C34_Witness ==
    /\ Running
    /\ last.op = "tick"
    /\ hist.loops > 0
    /\ hist.wact = 0
    /\ Table.pwin_nr >= 2
    /\ tp.wnext = 0
    /\ tp.tps = WindowPart(Table, 0)
    /\ tp.tf_timer.date = tp.tf_start
    /\ WindowPart(Table, 0) # WindowPart(Table, 1)
    /\ now <= tp.tf_start

\* some window of the installed table is assigned to partition p
Referenced(p) ==
    IF tp.gps = NoSched THEN FALSE
    ELSE \E i \in 1..Table.pwin_nr : Table.pwins[i].w_part = p

\* a whole frame fits in what is left of the clock
FrameLeft == now + Table.tf_duration <= MaxTime

\* th is ready at the head of the queue of its partition, which some window
\* references, and no thread of that partition is running
HeadOfReferenced(th) ==
    /\ thread[th].base_class = "tp"
    /\ thread[th].st = "ready"
    /\ Referenced(thread[th].tps)
    /\ runnable[thread[th].tps] # <<>>
    /\ Head(runnable[thread[th].tps]) = th
    /\ \A o \in Threads :
          (thread[o].base_class = "tp" /\ thread[o].st = "running")
          => thread[o].tps # thread[th].tps

\* C35: on a CPU that stays Running with every firing handled on time, every
\* partition that a window references becomes the active partition within a
\* frame, a thread ready at the head of the queue of such a partition is
\* eventually returned by tp_pick, and tp_pick never returns a thread of a
\* partition that no window references
C35_PartitionsServed ==
    /\ \A p \in Parts, t0 \in 0..MaxTime :
          (Running /\ Referenced(p) /\ now = t0 /\ FrameLeft)
          ~> (Running /\ tp.tps = p /\ now <= t0 + Table.tf_duration)
    /\ \A th \in Threads :
          (Running /\ FrameLeft /\ HeadOfReferenced(th))
          ~> (last.op = "pick" /\ last.thread = th)
    /\ [][(last'.op = "pick" /\ last'.thread # NoThread)
          => Referenced(thread[last'.thread].tps)]_vars

\* tp_pick has returned a thread of the partition of window 1, which is not
\* the partition of window 0: the thread had to wait for its window
C35_Witness ==
    /\ Running
    /\ last.op = "pick"
    /\ last.thread # NoThread
    /\ hist.wact = 1
    /\ thread[last.thread].tps = WindowPart(Table, 1)
    /\ WindowPart(Table, 1) # WindowPart(Table, 0)

C37_EmptyInstallUninstalls ==
    [][(last'.op = "install" /\ last'.locked /\ last'.req = <<>>)
       => /\ heap' = heap
          /\ tp' = set_tp_schedule(tp, heap, NoSched).tp
          /\ last'.events = switch_events(FALSE, last'.ret)
          /\ IF tp.threads = {}
             THEN /\ last'.ret = 0
                  /\ tp'.gps = NoSched
                  /\ ~tp'.tf_timer.running
                  /\ IF tp.gps = NoSched
                     THEN last'.done /\ call' = call
                     ELSE /\ ~last'.done
                          /\ \E c \in Callers :
                                /\ call'[c].pc = "put"
                                /\ call'[c].gps = tp.gps
                                /\ call' = [call EXCEPT ![c] = call'[c]]
             ELSE /\ last'.ret = -EBUSY
                  /\ last'.done
                  /\ tp' = tp
                  /\ call' = call]_vars

\* an install without windows has taken the table off a CPU whose timer was
\* running and is about to put it
C37_Witness ==
    /\ last.op = "install"
    /\ last.locked
    /\ last.req = <<>>
    /\ last.ret = 0
    /\ Uninstalled
    /\ ~tp.tf_timer.running
    /\ tp.tf_timer.date > 0
    /\ \E c \in Callers : call[c].pc = "put" /\ heap[call[c].gps].live

\* the queues but the one of partition p are left as they are
OthersKept(p) == \A q \in Queues \ {p} : runnable'[q] = runnable[q]

\* C38: tp_enqueue, tp_dequeue and tp_requeue act on the queue of the
\* partition the thread is assigned to and on no other, whichever partition
\* is active: a blocked thread made ready goes to the tail of its priority
\* group there, a ready thread made blocked leaves it, a running thread
\* made ready goes to the head of its priority group there; and the idle
\* queue is empty in every state
C38_OwnQueueOnly ==
    [][/\ runnable'[IdlePart] = <<>>
       /\ \A th \in Threads :
             (thread[th].base_class = "tp" /\ thread'[th].base_class = "tp"
              /\ thread'[th].st # thread[th].st /\ last'.op # "pick")
             => /\ thread'[th].tps = thread[th].tps
                /\ thread[th].tps \in Parts
                /\ OthersKept(thread[th].tps)
                /\ runnable'[thread[th].tps] =
                      IF thread[th].st = "blocked" /\ thread'[th].st = "ready"
                      THEN evl_add_schedq_tail(runnable[thread[th].tps], th, thread)
                      ELSE IF thread[th].st = "ready" /\ thread'[th].st = "blocked"
                      THEN evl_del_schedq(runnable[thread[th].tps], th)
                      ELSE IF thread[th].st = "running" /\ thread'[th].st = "ready"
                      THEN evl_add_schedq(runnable[thread[th].tps], th, thread)
                      ELSE runnable[thread[th].tps]]_vars

\* a thread is queued in its partition while another partition is the
\* active one and holds a queued thread too
C38_Witness ==
    /\ Running
    /\ \E th \in Threads :
          /\ thread[th].base_class = "tp"
          /\ thread[th].st = "ready"
          /\ thread[th].tps # tp.tps
          /\ Linked(th, runnable[thread[th].tps])
          /\ tp.tps \in Parts
          /\ runnable[tp.tps] # <<>>

\* C39: a get on a CPU with a table and no result buffer returns -EINVAL
\* after it has put the reference it took under the lock: the count of the
\* table is back to one per holder, as before the call, nothing is written
\* and nothing else changes; a get on a CPU without table returns 0 in one
\* step, takes no reference and writes nothing
C39_GetBalance ==
    [][/\ (last'.op = "get" /\ last'.ret = -EINVAL)
          => /\ "info" \notin DOMAIN last'
             /\ tp' = tp
             /\ \E c \in Callers :
                   /\ call[c].pc = "get"
                   /\ ~call[c].infp
                   /\ call' = [call EXCEPT ![c] = Idle]
                   /\ last'.gps = call[c].gps
                   /\ heap[call[c].gps].live
                   /\ \A id \in Tables \ {call[c].gps} : heap'[id] = heap[id]
                   /\ IF heap[call[c].gps].refcount = 1
                      THEN ~heap'[call[c].gps].live /\ tp.gps # call[c].gps
                      ELSE /\ heap'[call[c].gps] =
                                [heap[call[c].gps] EXCEPT !.refcount = @ - 1]
                           /\ heap'[call[c].gps].refcount = Holders(call[c].gps, call')
       /\ \A c \in Callers :
             (tp.gps = NoSched /\ call[c].pc = "idle") => call'[c].pc # "get"
       /\ (last'.op = "get" /\ tp.gps = NoSched /\ call' = call)
          => /\ last'.ret = 0
             /\ last'.done
             /\ "info" \notin DOMAIN last'
             /\ heap' = heap
             /\ tp' = tp]_vars

\* a get without result buffer has returned -EINVAL on a CPU whose table is
\* still installed, held by the CPU alone
C39_Witness ==
    /\ last.op = "get"
    /\ last.ret = -EINVAL
    /\ tp.gps = last.gps
    /\ heap[tp.gps].live
    /\ heap[tp.gps].refcount = 1
    /\ \A c \in Callers : call[c].pc = "idle"

\* C40: tp_ceilprio sets the current priority of the thread to the smaller
\* of the ceiling asked for and EVL_TP_MAX_PRIO, a ceiling below the TP
\* minimum being taken as it is, and leaves the base priority, the
\* partition and the class of the thread alone
C40_CeilClamped ==
    [][last'.op = "ceilprio"
       => LET th == last'.thread
              prio == last'.prio
          IN  /\ thread'[th].cprio = IF prio < EVL_TP_MAX_PRIO THEN prio ELSE EVL_TP_MAX_PRIO
              /\ thread'[th].cprio <= EVL_TP_MAX_PRIO
              /\ thread'[th].bprio = thread[th].bprio
              /\ thread'[th].tps = thread[th].tps
              /\ thread'[th].base_class = thread[th].base_class]_vars

\* a ceiling above the TP maximum has been applied to a thread of a lower
\* base priority: its current priority is the maximum
C40_Witness ==
    /\ last.op = "ceilprio"
    /\ last.prio > EVL_TP_MAX_PRIO
    /\ thread[last.thread].cprio = EVL_TP_MAX_PRIO
    /\ thread[last.thread].bprio < EVL_TP_MAX_PRIO
    /\ thread[last.thread].tps \in Parts


====
